---- MODULE Spec2Model ----
(***************************************************************************)
(* Chapter acquisition and image-stitching pipeline of the RAW provider    *)
(* bot: MangaDownloader.download_chapter and the stages it drives          *)
(* (get_chapter_url, scrape_with_requests, scrape_with_selenium,           *)
(* download_image, ImageStitcher.stitch_images), src/downloader.py, and    *)
(* its callers: /download and /batch (src/main.py), the daily run and the  *)
(* schedule loop (src/scheduler.py).                                       *)
(*                                                                         *)
(* The specifications share the definitions below:                         *)
(*   SpecStitch    ImageStitcher.stitch_images applied to bounded inputs   *)
(*   Spec          one download_chapter run, every site, page and response *)
(*   SpecFair      Spec with the run scheduled fairly                      *)
(*   SpecConc      several download_chapter runs on one MangaDownloader    *)
(*   SpecConcFair  SpecConc with every pipeline scheduled fairly           *)
(*   SpecFetch     one run on a chapter with more images than workers      *)
(*   SpecCallers   one /download, /batch or daily run, every input         *)
(*   SpecSkip      get_skip_value_from_sheet applied to bounded sheets     *)
(*   SpecLoop      the schedule loop over a few days                       *)
(***************************************************************************)
EXTENDS Integers, Sequences, FiniteSets, TLC

VARIABLES
    \* ---- ImageStitcher.stitch_images called on its own
    st_pc,          \* "input" | "done"
    st_images,      \* image_data_list
    st_max_height,  \* max_height
    st_pages,       \* the returned list
    \* ---- MangaDownloader (shared by every pipeline)
    driver,         \* self.driver: <<>> (None) or <<instance id>>
    driver_lock,    \* self.driver_lock: <<>> (free) or <<holder>>
    browser,        \* the browser behind the driver: instances started, page loaded
    headers,        \* self.headers: header name -> value
    \* ---- one download_chapter coroutine per pipeline
    pc,             \* position of the coroutine / of its executor thread
    req,            \* arguments: site, base_url, chapter_num, progress_callback
    chapter_url,    \* <<>> or <<url>>
    images,         \* scraped image source list
    results,        \* executor.map slots, one per task
    image_data,     \* successful fetches, filtered
    ret,            \* <<>> while running, else <<outcome>>
    notified,       \* messages the progress observer received
    calls,          \* how often each stage was invoked by this run
    scroll,         \* scrape_with_selenium: total_height, i, the scrollTo calls issued
    sent,           \* the HTTP requests this run sent through self.session, with their headers
    \* ---- a caller of download_chapter: /download, /batch or the daily run
    c_pc,           \* position of the command handler / of process_daily_tasks
    c_req,          \* what the caller was given: command arguments, sheet, day
    c_i,            \* loop variable: ch of /batch, index of the task of the day
    c_tasks,        \* tasks = await self.get_today_tasks()
    c_log,          \* the items taken up so far, in order: download_chapter calls, skips
    c_folder,       \* <<>> or <<the folder created last>>
    c_failed,       \* how many items of the run were reported as failed so far
    c_results,      \* results of process_daily_tasks
    c_uploaded,     \* <<>> or <<the upload loop that ran last: its chapter, its uploaded_count>>
    \* ---- SheetScheduler.schedule_loop; instants are minutes of the configured zone
    sl_pc,          \* position of the loop
    sl_now,         \* the clock
    sl_target,      \* scheduled_time
    sl_runs         \* the process_daily_tasks runs so far: when started, for which instant

stitchVars == <<st_pc, st_images, st_max_height, st_pages>>
sharedVars == <<driver, driver_lock, browser, headers>>
pipeVars == <<pc, req, chapter_url, images, results, image_data, ret, notified, calls, scroll, sent>>
callerVars == <<c_pc, c_req, c_i, c_tasks, c_log, c_folder, c_failed, c_results, c_uploaded>>
loopVars == <<sl_pc, sl_now, sl_target, sl_runs>>
outsideVars == <<stitchVars, callerVars, loopVars>>
vars == <<st_pc, st_images, st_max_height, st_pages, driver, driver_lock, browser,
          pc, req, chapter_url, images, results, image_data, ret, notified, calls, scroll, sent, headers,
          c_pc, c_req, c_i, c_tasks, c_log, c_folder, c_failed, c_results, c_uploaded,
          sl_pc, sl_now, sl_target, sl_runs>>

(***************************************************************************)
(* Bounds of the model                                                     *)
(***************************************************************************)
MaxImgs == 3
NumPipelines == 2
MaxChapter == 2
FetchBatch == 9
MaxStart == 2
MaxBatchEnd == 12
MaxRows == 2
MaxDays == 3
MaxUploads == 2
MaxScrolls == 2

(***************************************************************************)
(* Program constants                                                       *)
(***************************************************************************)
STITCH_HEIGHT == 12000
max_workers == 8
MinSrcLen == 50
MaxBatchSpan == 10
MinColumns == 11
DayMinutes == 1440
AfterRunSleep == 1
ErrorSleep == 60
ScrollStep == 800

None == <<>>
Some(x) == <<x>>

RECURSIVE SumHeights(_)
SumHeights(imgs) == IF imgs = <<>> THEN 0 ELSE Head(imgs).height + SumHeights(Tail(imgs))

SeqMax(s) == CHOOSE m \in {s[i] : i \in DOMAIN s} : \A i \in DOMAIN s : s[i] <= m

WidthsOf(imgs) == [i \in DOMAIN imgs |-> imgs[i].width]

RECURSIVE Flatten(_)
Flatten(ss) == IF ss = <<>> THEN <<>> ELSE Head(ss) \o Flatten(Tail(ss))

(***************************************************************************)
(* ImageStitcher                                                           *)
(* An image is [id, height, width, ok]; ok = FALSE are bytes that          *)
(* Image.open cannot decode.  A stitched page records the canvas size and  *)
(* the images pasted on it.                                                *)
(***************************************************************************)
DecodableFirstOnly(image_data_list) == image_data_list[1].ok
AllDecodable(image_data_list) == \A i \in DOMAIN image_data_list : image_data_list[i].ok

\* max_width = max(img.width for img in images)
MaxWidthFirstOnly(imgs) == imgs[1].width
max_width_of(imgs) == SeqMax(WidthsOf(imgs))

\* if current_height + img.height > max_height and current_images:
ClosesBatchLate(current_height, img, max_height, current_images) ==
    current_height > max_height /\ current_images # <<>>
ClosesBatchAtLimit(current_height, img, max_height, current_images) ==
    current_height + img.height >= max_height /\ current_images # <<>>
ClosesBatchUnlessOversized(current_height, img, max_height, current_images) ==
    current_height + img.height > max_height /\ current_images # <<>> /\ img.height <= max_height
ClosesBatch(current_height, img, max_height, current_images) ==
    current_height + img.height > max_height /\ current_images # <<>>

\* _create_stitched_image, lines 314-319: where each image is pasted on the
\* canvas, x_offset = (width - img.width) // 2
x_offset_flush_left(width, img) == 0
x_offset_of(width, img) == (width - img.width) \div 2

RECURSIVE PasteLoop(_, _, _)
PasteLoop(imgs, width, y_offset) ==
    IF imgs = <<>> THEN <<>>
    ELSE <<[x_offset |-> x_offset_of(width, Head(imgs)), y_offset |-> y_offset]>>
             \o PasteLoop(Tail(imgs), width, y_offset + Head(imgs).height)

\* A page: the canvas of the given size, its images and where they were pasted
create_stitched_image(imgs, width, height) ==
    [members |-> imgs, width |-> width, height |-> height, pastes |-> PasteLoop(imgs, width, 0)]

\* the body of "for img in images"
StartNewBatchDropping(acc, img, max_width) ==
    [stitched_images |-> Append(acc.stitched_images,
                                create_stitched_image(acc.current_images, max_width, acc.current_height)),
     current_images |-> <<>>,
     current_height |-> 0]
StartNewBatch(acc, img, max_width) ==
    [stitched_images |-> Append(acc.stitched_images,
                                create_stitched_image(acc.current_images, max_width, acc.current_height)),
     current_images |-> <<img>>,
     current_height |-> img.height]

StitchStep(acc, img, max_width, max_height) ==
    IF ClosesBatch(acc.current_height, img, max_height, acc.current_images)
    THEN StartNewBatch(acc, img, max_width)
    ELSE [acc EXCEPT !.current_images = Append(@, img),
                     !.current_height = @ + img.height]

RECURSIVE StitchLoop(_, _, _, _)
StitchLoop(imgs, acc, max_width, max_height) ==
    IF imgs = <<>> THEN acc
    ELSE StitchLoop(Tail(imgs), StitchStep(acc, Head(imgs), max_width, max_height),
                    max_width, max_height)

stitch_images(image_data_list, max_height) ==
    IF image_data_list = <<>> THEN <<>>
    ELSE IF ~AllDecodable(image_data_list) THEN <<>>     \* Image.open raises: except -> []
    ELSE LET max_width == max_width_of(image_data_list)
             acc == StitchLoop(image_data_list,
                               [stitched_images |-> <<>>, current_images |-> <<>>, current_height |-> 0],
                               max_width, max_height)
         IN  IF acc.current_images # <<>>
             THEN Append(acc.stitched_images,
                         create_stitched_image(acc.current_images, max_width, acc.current_height))
             ELSE acc.stitched_images

(***************************************************************************)
(* Strings.  A site label, a series URL and an image source are known by   *)
(* the substrings the code tests for ("x in s", re.search) and, for an     *)
(* image source, by its length.                                            *)
(***************************************************************************)
Sites == {"Naver Webtoon", "Webtoons.com (Global)", "LINE Manga", "AC.QQ"}

SiteText ==
    [s \in Sites |->
        CASE s = "Naver Webtoon" -> {"Naver"}
          [] s = "Webtoons.com (Global)" -> {"Webtoons.com"}
          [] s = "LINE Manga" -> {"LINE"}
          [] OTHER -> {"AC.QQ"}]

\* marker in site
InSite(marker, site) == marker \in SiteText[site]

\* A series URL, as the groups the three patterns capture in it ("" = no match)
NaverBase == [titleId |-> "183559", title_no |-> "", product |-> ""]
WebtoonsBase == [titleId |-> "", title_no |-> "95", product |-> ""]
LineBase == [titleId |-> "", title_no |-> "", product |-> "Z0000123"]
MixedBase == [titleId |-> "7", title_no |-> "8", product |-> ""]
JunkBase == [titleId |-> "", title_no |-> "", product |-> ""]
BaseUrls == {NaverBase, WebtoonsBase, LineBase, MixedBase, JunkBase}

Chapters == 1..MaxChapter
Callbacks == {"none", "ok", "raises"}

\* Image sources
BatchSrcs == <<"b01", "b02", "b03", "b04", "b05", "b06", "b07", "b08", "b09", "b10", "b11", "b12">>
Srcs == {"n1", "n2", "n3", "l1", "l2", "l3", "w1", "w2", "w3", "wstub", "icon", "ad"}
            \cup {BatchSrcs[i] : i \in DOMAIN BatchSrcs}
SrcLen ==
    [s \in Srcs |-> CASE s = "icon" -> 30
                      [] s = "ad" -> 90
                      [] OTHER -> 120]
SrcText ==
    [s \in Srcs |->
        CASE s \in {"l1", "l2"} -> {"line-scdn"}
          [] s = "l3" -> {"obs.line"}
          [] s \in {"w1", "w2", "w3", "icon"} -> {"cdn.webtoon"}
          [] s = "wstub" -> {"cdn.webtoon", "stub"}
          [] OTHER -> {}]
InSrc(marker, src) == marker \in SrcText[src]

\* The picture behind an image source
SrcHeight ==
    [s \in Srcs |-> CASE s \in {"n1", "l1", "w1"} -> 5000
                      [] s \in {"n2", "l2", "w2"} -> 8000
                      [] s \in {"n3", "l3", "w3"} -> 3000
                      [] OTHER -> 15000]
SrcWidth ==
    [s \in Srcs |-> CASE s \in {"n2", "l2", "w2"} -> 600
                      [] OTHER -> 800]

\* An <img> element: src and data-src attributes ("" = absent), and whether
\* it lies inside <div class="wt_viewer">
Img(src, data_src, in_viewer) == [src |-> src, data_src |-> data_src, in_viewer |-> in_viewer]

\* A document: the host serving it, has it a wt_viewer div, has it
\* #content-all, its <img> elements
Doc(host, viewer, content_all, imgs) ==
    [host |-> host, viewer |-> viewer, content_all |-> content_all, imgs |-> imgs]
BlankDoc == Doc("", FALSE, FALSE, <<>>)

NaverDocs ==
    { Doc("comic.naver.com", TRUE, FALSE,
          <<Img("ad", "", FALSE), Img("n1", "", TRUE), Img("n2", "", TRUE), Img("n3", "", TRUE)>>),
      Doc("comic.naver.com", TRUE, FALSE,
          <<Img("n1", "", TRUE), Img("n2", "", TRUE), Img("n1", "", TRUE)>>),
      Doc("comic.naver.com", TRUE, FALSE, <<Img("", "n1", TRUE)>>),
      Doc("comic.naver.com", FALSE, FALSE, <<Img("ad", "", FALSE)>>) }
LineDocs ==
    { Doc("manga.line.me", FALSE, FALSE,
          <<Img("", "l1", FALSE), Img("l2", "", FALSE), Img("l1", "", FALSE),
            Img("ad", "", FALSE), Img("icon", "l3", FALSE)>>),
      Doc("manga.line.me", FALSE, FALSE, <<Img("ad", "", FALSE), Img("", "", FALSE)>>) }
WebtoonsDocs ==
    { Doc("www.webtoons.com", FALSE, TRUE,
          <<Img("icon", "", FALSE), Img("w1", "", FALSE), Img("", "w2", FALSE),
            Img("wstub", "w3", FALSE), Img("w1", "", FALSE), Img("ad", "", FALSE),
            Img("w3", "", FALSE)>>),
      Doc("www.webtoons.com", FALSE, TRUE, <<Img("wstub", "", FALSE), Img("icon", "", FALSE)>>),
      Doc("www.webtoons.com", FALSE, FALSE, <<Img("w1", "", FALSE), Img("w2", "", FALSE)>>) }
AllDocs == NaverDocs \cup LineDocs \cup WebtoonsDocs

\* Leaner inputs for the runs with several pipelines
\* document.body.scrollHeight of the documents: heights around the values
\* of range(1, total_height, 800); the target of the last scroll
DocHeights == {0} \cup {ScrollStep * k + d : k \in 0..(MaxScrolls - 1), d \in {1, 2}}
ConcDocHeights == {2}
ToY(i) == [script |-> "window.scrollTo(0, i)", y |-> i]
ToScrollHeight == [script |-> "window.scrollTo(0, document.body.scrollHeight)", y |-> 0]

ConcSites == {"Naver Webtoon", "Webtoons.com (Global)"}
ConcBaseUrls == {NaverBase, WebtoonsBase}
ConcCallbacks == {"none"}
ConcDocs ==
    { Doc("comic.naver.com", TRUE, FALSE, <<Img("n1", "", TRUE)>>),
      Doc("www.webtoons.com", FALSE, TRUE, <<Img("w1", "", FALSE), Img("w1", "", FALSE)>>),
      Doc("www.webtoons.com", FALSE, FALSE, <<Img("w1", "", FALSE)>>) }

\* A long chapter: FetchBatch pictures in the viewer
BatchDoc ==
    Doc("comic.naver.com", TRUE, FALSE, [i \in 1..FetchBatch |-> Img(BatchSrcs[i], "", TRUE)])

\* The documents, among docs, that the host of url may answer with
DocsAt(url, docs) == {d \in docs : d.host = url.host}

\* Outcomes of one image request
Responses == {"200", "200 corrupt", "404", "error"}
ConcResponses == {"200", "error"}

(***************************************************************************)
(* MangaDownloader.get_chapter_url                                         *)
(***************************************************************************)
\* re.search(pattern, base_url): the captured group, or None
re_search(group, base_url) == IF base_url[group] = "" THEN None ELSE Some(base_url[group])

ChapterUrl(host, id, ep_num) == [host |-> host, id |-> id, ep |-> ep_num]

get_chapter_url_any_pattern(site, base_url, ep_num) ==
    IF re_search("titleId", base_url) # None
    THEN Some(ChapterUrl("comic.naver.com", base_url.titleId, ep_num))
    ELSE IF re_search("title_no", base_url) # None
    THEN Some(ChapterUrl("www.webtoons.com", base_url.title_no, ep_num))
    ELSE IF re_search("product", base_url) # None
    THEN Some(ChapterUrl("manga.line.me", base_url.product, ep_num))
    ELSE None
get_chapter_url_first_episode(site, base_url, ep_num) ==
    IF InSite("Naver", site) /\ re_search("titleId", base_url) # None
    THEN Some(ChapterUrl("comic.naver.com", base_url.titleId, 1))
    ELSE IF InSite("Webtoons.com", site) /\ re_search("title_no", base_url) # None
    THEN Some(ChapterUrl("www.webtoons.com", base_url.title_no, 1))
    ELSE IF InSite("LINE", site) /\ re_search("product", base_url) # None
    THEN Some(ChapterUrl("manga.line.me", base_url.product, 1))
    ELSE None
get_chapter_url(site, base_url, ep_num) ==
    IF InSite("Naver", site)
    THEN LET match == re_search("titleId", base_url)
         IN  IF match # None THEN Some(ChapterUrl("comic.naver.com", match[1], ep_num)) ELSE None
    ELSE IF InSite("Webtoons.com", site)
    THEN LET match == re_search("title_no", base_url)
         IN  IF match # None THEN Some(ChapterUrl("www.webtoons.com", match[1], ep_num)) ELSE None
    ELSE IF InSite("LINE", site)
    THEN LET match == re_search("product", base_url)
         IN  IF match # None THEN Some(ChapterUrl("manga.line.me", match[1], ep_num)) ELSE None
    ELSE None

use_selenium_always(site) == TRUE
\* use_selenium = "Webtoons.com" in site or "AC.QQ" in site
use_selenium(site) == InSite("Webtoons.com", site) \/ InSite("AC.QQ", site)

(***************************************************************************)
(* Scraping: the parsing halves of scrape_with_requests and                *)
(* scrape_with_selenium                                                    *)
(***************************************************************************)
\* list(dict.fromkeys(images))
RECURSIVE DedupFrom(_, _)
DedupFrom(s, seen) ==
    IF s = <<>> THEN <<>>
    ELSE IF Head(s) \in seen THEN DedupFrom(Tail(s), seen)
    ELSE <<Head(s)>> \o DedupFrom(Tail(s), seen \cup {Head(s)})
dict_fromkeys(s) == DedupFrom(s, {})

\* a or b on attribute values
Or(a, b) == IF a # "" THEN a ELSE b

\* [img.get('src') for img in viewer.find_all('img') if img.get('src')]
RECURSIVE NaverSrcs(_)
NaverSrcs(imgs) ==
    IF imgs = <<>> THEN <<>>
    ELSE (IF Head(imgs).in_viewer /\ Head(imgs).src # "" THEN <<Head(imgs).src>> ELSE <<>>)
         \o NaverSrcs(Tail(imgs))

RECURSIVE LineSrcs(_)
LineSrcs(imgs) ==
    IF imgs = <<>> THEN <<>>
    ELSE LET src == Or(Head(imgs).data_src, Head(imgs).src)
         IN  (IF src # "" /\ (InSrc("line-scdn", src) \/ InSrc("obs.line", src)) THEN <<src>> ELSE <<>>)
             \o LineSrcs(Tail(imgs))

\* the parse of scrape_with_requests, given the document the GET returned
parse_requests(doc, site) ==
    IF InSite("Naver", site)
    THEN (IF doc.viewer THEN NaverSrcs(doc.imgs) ELSE <<>>)
    ELSE IF InSite("LINE", site)
    THEN dict_fromkeys(LineSrcs(doc.imgs))
    ELSE <<>>

\* the selection inside "for img in img_elements"
SeleniumKeepsAnyLong(src, site) == src # "" /\ SrcLen[src] > MinSrcLen
SeleniumKeeps(src, site) ==
    /\ src # ""
    /\ SrcLen[src] > MinSrcLen
    /\ \/ InSite("Webtoons.com", site) /\ InSrc("cdn.webtoon", src) /\ ~InSrc("stub", src)
       \/ ~InSite("Webtoons.com", site)

RECURSIVE SeleniumSrcs(_, _)
SeleniumSrcs(imgs, site) ==
    IF imgs = <<>> THEN <<>>
    ELSE LET src == Or(Head(imgs).src, Head(imgs).data_src)
         IN  (IF SeleniumKeeps(src, site) THEN <<src>> ELSE <<>>) \o SeleniumSrcs(Tail(imgs), site)

\* the harvest of scrape_with_selenium, given the document the browser shows
harvest_selenium(doc, site) == dict_fromkeys(SeleniumSrcs(doc.imgs, site))

(***************************************************************************)
(* MangaDownloader.download_image: the value returned for a response       *)
(***************************************************************************)
ImageOf(src, ok) == [id |-> src, height |-> SrcHeight[src], width |-> SrcWidth[src], ok |-> ok]

download_image(src, response) ==
    IF response = "200" THEN Some(ImageOf(src, TRUE))
    ELSE IF response = "200 corrupt" THEN Some(ImageOf(src, FALSE))
    ELSE None

(***************************************************************************)
(* State                                                                   *)
(***************************************************************************)
Pipelines == 1..NumPipelines

NoCalls == [get_chapter_url |-> 0, progress_callback |-> 0, scrape_with_requests |-> 0,
            scrape_with_selenium |-> 0, init_selenium |-> 0, browser_ops |-> 0,
            network |-> 0, download_image |-> 0, stitch_images |-> 0]
\* self.headers = {'User-Agent': ...}, a dict: header name to value
DefaultHeaders == [name \in {"User-Agent"} |-> "Mozilla/5.0"]
\* d[name] = value
dict_set(d, name, value) == [x \in DOMAIN d \cup {name} |-> IF x = name THEN value ELSE d[x]]
\* session.get(url, headers=h)
Request(to, h) == [to |-> to, headers |-> h]

\* scrape_with_selenium has not reached line 469
NoScroll == [total_height |-> None, i |-> 0, issued |-> <<>>]

NoReq == [site |-> "AC.QQ", base_url |-> JunkBase, chapter_num |-> 1, progress_callback |-> "none"]

\* What download_chapter hands back: a returned (pages, error) pair, or an
\* exception that leaves the coroutine
Returned(pages, error) == [kind |-> "return", pages |-> pages, error |-> error]
Raised == [kind |-> "raise", pages |-> None, error |-> None]

InitStitchIdle ==
    /\ st_pc = "off"
    /\ st_images = <<>>
    /\ st_max_height = STITCH_HEIGHT
    /\ st_pages = <<>>

\* MangaDownloader.__init__, and no download_chapter started yet
InitPipelines ==
    /\ driver = None
    /\ driver_lock = None
    /\ browser = [instances |-> 0, url |-> None, doc |-> BlankDoc]
    /\ pc = [p \in Pipelines |-> "idle"]
    /\ req = [p \in Pipelines |-> NoReq]
    /\ chapter_url = [p \in Pipelines |-> None]
    /\ images = [p \in Pipelines |-> <<>>]
    /\ results = [p \in Pipelines |-> <<>>]
    /\ image_data = [p \in Pipelines |-> <<>>]
    /\ ret = [p \in Pipelines |-> None]
    /\ notified = [p \in Pipelines |-> <<>>]
    /\ calls = [p \in Pipelines |-> NoCalls]
    /\ scroll = [p \in Pipelines |-> NoScroll]
    /\ sent = [p \in Pipelines |-> {}]
    /\ headers = DefaultHeaders

\* no command and no daily run in progress
InitCallersIdle ==
    /\ c_pc = "off"
    /\ c_req = [kind |-> "none"]
    /\ c_i = 0
    /\ c_tasks = <<>>
    /\ c_log = <<>>
    /\ c_folder = None
    /\ c_failed = 0
    /\ c_results = <<>>
    /\ c_uploaded = None

\* the schedule loop is not started
InitLoopIdle ==
    /\ sl_pc = "off"
    /\ sl_now = 0
    /\ sl_target = 0
    /\ sl_runs = <<>>

Init == InitPipelines /\ InitStitchIdle /\ InitCallersIdle /\ InitLoopIdle

(***************************************************************************)
(* download_chapter                                                        *)
(***************************************************************************)
Count(p, stage) == [calls EXCEPT ![p][stage] = @ + 1]

\* "if progress_callback: await progress_callback(msg)" : the observer's log
\* after the call, and whether the call raised
TellTwice(p, msg) ==
    IF req[p].progress_callback = "none" THEN notified[p] ELSE Append(Append(notified[p], msg), msg)
Tell(p, msg) ==
    IF req[p].progress_callback = "none" THEN notified[p] ELSE Append(notified[p], msg)
TellRaises(cb) == cb = "raises"

\* download_chapter ends
Finish(p, outcome) ==
    /\ pc' = [pc EXCEPT ![p] = "done"]
    /\ ret' = [ret EXCEPT ![p] = Some(outcome)]

\* lines 507-516: locate the chapter, announce it, choose the strategy
Start(p, sites, base_urls, callbacks) ==
    /\ pc[p] = "idle"
    /\ \E site \in sites, base_url \in base_urls, chapter_num \in Chapters, cb \in callbacks :
          LET url == get_chapter_url(site, base_url, chapter_num)
              c1 == [calls[p] EXCEPT !.get_chapter_url = @ + 1]
          IN  /\ req' = [req EXCEPT ![p] = [site |-> site, base_url |-> base_url,
                                            chapter_num |-> chapter_num, progress_callback |-> cb]]
              /\ chapter_url' = [chapter_url EXCEPT ![p] = url]
              /\ IF url = None
                 THEN /\ Finish(p, Returned(None, Some("Invalid URL format")))
                      /\ calls' = [calls EXCEPT ![p] = c1]
                      /\ UNCHANGED notified
                 ELSE /\ calls' = [calls EXCEPT ![p] =
                                     IF cb = "none" THEN c1
                                     ELSE [c1 EXCEPT !.progress_callback = @ + 1]]
                      /\ notified' = [notified EXCEPT ![p] =
                                        IF cb = "none" THEN @
                                        ELSE Append(@, [msg |-> "Fetching chapter", n |-> chapter_num])]
                      /\ IF TellRaises(cb)
                         THEN Finish(p, Raised)
                         ELSE /\ pc' = [pc EXCEPT ![p] =
                                          IF use_selenium(site) THEN "selenium" ELSE "requests"]
                              /\ UNCHANGED ret
    /\ UNCHANGED <<images, results, image_data>>
    /\ UNCHANGED sharedVars
    /\ UNCHANGED <<scroll, sent>>
    /\ UNCHANGED outsideVars

\* "if not images", "if not image_data", "if not stitched_images"
NoImagesNever(list) == FALSE
NoImages(list) == list = <<>>
NoImageDataNever(list) == FALSE
NoImageData(list) == list = <<>>

\* lines 545-549: what download_chapter returns after stitching
StitchOutcomeUnchecked(stitched_images) == Returned(Some(stitched_images), None)
StitchOutcome(stitched_images) ==
    IF stitched_images = <<>>
    THEN Returned(None, Some("Failed to stitch images"))
    ELSE Returned(Some(stitched_images), None)

\* lines 519-522: "images = await ..." binds a local variable of the
\* coroutine
images_on_self(p, imgs) == [q \in Pipelines |-> imgs]
images_local(p, imgs) == [images EXCEPT ![p] = imgs]

\* lines 524-530: the scraper handed back imgs; c are this run's counters so far
ScrapeReturns(p, imgs, c) ==
    /\ images' = images_local(p, imgs)
    /\ IF NoImages(imgs)
       THEN /\ Finish(p, Returned(None, Some("No images found or chapter locked")))
            /\ calls' = [calls EXCEPT ![p] = c]
            /\ UNCHANGED <<notified, results>>
       ELSE /\ notified' = [notified EXCEPT ![p] = Tell(p, [msg |-> "Downloading images", n |-> Len(imgs)])]
            /\ calls' = [calls EXCEPT ![p] =
                            IF req[p].progress_callback = "none" THEN c
                            ELSE [c EXCEPT !.progress_callback = @ + 1]]
            /\ IF TellRaises(req[p].progress_callback)
               THEN Finish(p, Raised) /\ UNCHANGED results
               ELSE /\ pc' = [pc EXCEPT ![p] = "fetching"]
                    /\ results' = [results EXCEPT ![p] = [i \in 1..Len(imgs) |-> [st |-> "queued", response |-> "", r |-> None]]]
                    /\ UNCHANGED ret
    /\ UNCHANGED <<req, chapter_url, image_data>>

\* "try: ... except Exception": the stages whose body is wrapped, so that an
\* error raised inside becomes the stage's empty result
CatchesAllButFetch(stage) ==
    stage \in {"scrape_with_requests", "scrape_with_selenium", "init_selenium", "stitch_images"}
Catches(stage) ==
    stage \in {"scrape_with_requests", "scrape_with_selenium", "init_selenium",
               "download_image", "stitch_images"}

\* an exception leaves the stage and, through the await, download_chapter
Escapes(p, c) ==
    /\ Finish(p, Raised)
    /\ calls' = [calls EXCEPT ![p] = c]
    /\ UNCHANGED <<req, chapter_url, images, results, image_data, notified>>

\* an error is raised inside a scraping stage
StageFails(p, stage, c) ==
    IF Catches(stage) THEN ScrapeReturns(p, <<>>, c) ELSE Escapes(p, c)

\* scrape_with_requests in an executor thread, then lines 524-530
ScrapeRequests(p, docs) ==
    /\ pc[p] = "requests"
    /\ LET c == [calls[p] EXCEPT !.scrape_with_requests = @ + 1, !.network = @ + 1]
       IN  \/ \E doc \in DocsAt(chapter_url[p][1], docs) :
                 ScrapeReturns(p, parse_requests(doc, req[p].site), c)
           \/ StageFails(p, "scrape_with_requests", c)   \* session.get raises
    /\ sent' = [sent EXCEPT ![p] = @ \cup {Request("page", headers)}]
    /\ UNCHANGED sharedVars
    /\ UNCHANGED scroll
    /\ UNCHANGED outsideVars

\* scrape_with_selenium, lines 457-459: "if not self.driver"
SelCheck(p) ==
    /\ pc[p] = "selenium"
    /\ pc' = [pc EXCEPT ![p] = IF driver = None THEN "sel_init" ELSE "sel_get"]
    /\ calls' = Count(p, "scrape_with_selenium")
    /\ UNCHANGED <<req, chapter_url, images, results, image_data, ret, notified>>
    /\ UNCHANGED sharedVars
    /\ UNCHANGED <<scroll, sent>>
    /\ UNCHANGED outsideVars

\* self.driver after init_selenium failed: both webdriver.Chrome(...) calls
\* raised before the assignment, the attribute keeps its value
driver_after_failed_init_stale(d) == Some(0)
driver_after_failed_init(d) == d

\* init_selenium: a new browser instance is assigned to self.driver, or the
\* start fails and the scrape returns []
SelInit(p) ==
    /\ pc[p] = "sel_init"
    /\ \/ /\ driver' = Some(browser.instances + 1)
          /\ browser' = [instances |-> browser.instances + 1, url |-> None, doc |-> BlankDoc]
          /\ pc' = [pc EXCEPT ![p] = "sel_get"]
          /\ calls' = Count(p, "init_selenium")
          /\ UNCHANGED <<req, chapter_url, images, results, image_data, ret, notified>>
       \/ /\ StageFails(p, "init_selenium", [calls[p] EXCEPT !.init_selenium = @ + 1])
          /\ driver' = driver_after_failed_init(driver)
          /\ UNCHANGED browser
    /\ UNCHANGED <<driver_lock, headers>>
    /\ UNCHANGED <<scroll, sent>>
    /\ UNCHANGED outsideVars

\* self.driver.get(url): the browser shows the document of url, or the
\* navigation raises and the scrape returns []
SelGet(p, docs) ==
    /\ pc[p] = "sel_get"
    /\ LET c == [calls[p] EXCEPT !.browser_ops = @ + 1, !.network = @ + 1]
       IN  \/ \E doc \in DocsAt(chapter_url[p][1], docs) :
                 /\ browser' = [browser EXCEPT !.url = chapter_url[p], !.doc = doc]
                 /\ pc' = [pc EXCEPT ![p] = "sel_wait"]
                 /\ calls' = [calls EXCEPT ![p] = c]
                 /\ UNCHANGED <<req, chapter_url, images, results, image_data, ret, notified>>
           \/ /\ StageFails(p, "scrape_with_selenium", c)
              /\ UNCHANGED browser
    /\ UNCHANGED <<driver, driver_lock, headers>>
    /\ UNCHANGED <<scroll, sent>>
    /\ UNCHANGED outsideVars

\* WebDriverWait(self.driver, 20).until(...) comes back: with the element,
\* or with TimeoutException once the 20 seconds are over
WaitReturnsOnlyIfPresent(doc) == doc.content_all
WaitReturns(doc) == TRUE

\* lines 463-467: only Webtoons.com waits for #content-all
WaitOutcomeIgnoringAbsence(site, doc) == "present"
WaitOutcome(site, doc) ==
    IF InSite("Webtoons.com", site) /\ ~doc.content_all THEN "timeout" ELSE "present"

\* lines 463-467: WebDriverWait(...).until(presence of #content-all); the
\* TimeoutException of an absent element is caught by "except" -> []
SelWait(p) ==
    /\ pc[p] = "sel_wait"
    /\ InSite("Webtoons.com", req[p].site) => WaitReturns(browser.doc)
    /\ LET c == [calls[p] EXCEPT !.browser_ops = @ + 1]
       IN  IF WaitOutcome(req[p].site, browser.doc) = "timeout"
           THEN StageFails(p, "scrape_with_selenium", c)
           ELSE /\ pc' = [pc EXCEPT ![p] = "sel_scroll"]
                /\ calls' = [calls EXCEPT ![p] = c]
                /\ UNCHANGED <<req, chapter_url, images, results, image_data, ret, notified>>
    /\ UNCHANGED sharedVars
    /\ UNCHANGED <<scroll, sent>>
    /\ UNCHANGED outsideVars

\* line 469: total_height = int(document.body.scrollHeight); the loop
\* variable of "for i in range(1, total_height, 800)" starts at 1
SelScroll(p, heights) ==
    /\ pc[p] = "sel_scroll"
    /\ \E total_height \in heights :
          scroll' = [scroll EXCEPT ![p] = [total_height |-> Some(total_height), i |-> 1, issued |-> <<>>]]
    /\ pc' = [pc EXCEPT ![p] = "sel_scrolling"]
    /\ calls' = Count(p, "browser_ops")
    /\ UNCHANGED <<req, chapter_url, images, results, image_data, ret, notified, sent>>
    /\ UNCHANGED sharedVars
    /\ UNCHANGED outsideVars

\* range(1, total_height, 800) has a next value
range_never_ends(i, total_height) == TRUE
range_continues(i, total_height) == i < total_height

\* lines 470-474: one pass of the scroll loop, window.scrollTo(0, i), or,
\* the range exhausted, window.scrollTo(0, document.body.scrollHeight)
SelScrollTo(p) ==
    /\ pc[p] = "sel_scrolling"
    /\ IF range_continues(scroll[p].i, scroll[p].total_height[1])
       THEN /\ scroll' = [scroll EXCEPT ![p].issued = Append(@, ToY(scroll[p].i)),
                                        ![p].i = @ + ScrollStep]
            /\ UNCHANGED pc
       ELSE /\ scroll' = [scroll EXCEPT ![p].issued = Append(@, ToScrollHeight)]
            /\ pc' = [pc EXCEPT ![p] = "sel_harvest"]
    /\ calls' = Count(p, "browser_ops")
    /\ UNCHANGED <<req, chapter_url, images, results, image_data, ret, notified, sent>>
    /\ UNCHANGED sharedVars
    /\ UNCHANGED outsideVars

\* lines 476-489: harvest the <img> elements of the document the browser
\* shows now, then lines 524-530
SelHarvest(p) ==
    /\ pc[p] = "sel_harvest"
    /\ ScrapeReturns(p, harvest_selenium(browser.doc, req[p].site),
                     [calls[p] EXCEPT !.browser_ops = @ + 1])
    /\ UNCHANGED sharedVars
    /\ UNCHANGED <<scroll, sent>>
    /\ UNCHANGED outsideVars

\* A scrape has navigated and has not finished harvesting
InFlight(p) == pc[p] \in {"sel_wait", "sel_scroll", "sel_scrolling", "sel_harvest"}

\* lines 532-533: executor.map over the tasks with max_workers threads.  A
\* free worker takes the next queued task.
Queued(p) == {i \in DOMAIN results[p] : results[p][i].st = "queued"}
Running(p) == {i \in DOMAIN results[p] : results[p][i].st = "running"}
Min(S) == CHOOSE m \in S : \A x \in S : m <= x

\* ThreadPoolExecutor(max_workers=8): a task starts when a worker is idle
WorkerAlwaysFree(running) == TRUE
WorkerFree(running) == Cardinality(running) < max_workers

\* lines 498-499: "headers = self.headers.copy(); headers['Referer'] =
\* referer" writes to the copy: self.headers after the two statements
self_headers_aliased(self_headers, referer) == dict_set(self_headers, "Referer", referer)
self_headers_after_copy(self_headers, referer) == self_headers

FetchBegin(p) ==
    /\ pc[p] = "fetching"
    /\ Queued(p) # {}
    /\ WorkerFree(Running(p))
    /\ results' = [results EXCEPT ![p][Min(Queued(p))].st = "running"]
    /\ calls' = [calls EXCEPT ![p].download_image = @ + 1, ![p].network = @ + 1]
    /\ LET referer == chapter_url[p][1]
       IN  /\ sent' = [sent EXCEPT ![p] = @ \cup {Request("image", dict_set(headers, "Referer", referer))}]
           /\ headers' = self_headers_after_copy(headers, referer)
    /\ UNCHANGED <<pc, req, chapter_url, images, image_data, ret, notified>>
    /\ UNCHANGED <<driver, driver_lock, browser>>
    /\ UNCHANGED scroll
    /\ UNCHANGED outsideVars

\* a running download_image returns; the value goes to the slot of its task
FetchEnd(p, responses) ==
    /\ pc[p] = "fetching"
    /\ \E i \in Running(p), response \in responses :
          IF response = "error" /\ ~Catches("download_image")
          THEN Escapes(p, calls[p])
          ELSE /\ results' = [results EXCEPT ![p][i] =
                                 [st |-> "done", response |-> response,
                                  r |-> download_image(images[p][i], response)]]
               /\ UNCHANGED <<pc, req, chapter_url, images, image_data, ret, notified, calls>>
    /\ UNCHANGED sharedVars
    /\ UNCHANGED <<scroll, sent>>
    /\ UNCHANGED outsideVars

\* image_data = [r for r in results if r is not None]
RECURSIVE NotNone(_)
NotNoneReversed(rs) ==
    IF rs = <<>> THEN <<>>
    ELSE NotNone(Tail(rs)) \o (IF Head(rs).r # None THEN <<Head(rs).r[1]>> ELSE <<>>)
NotNone(rs) ==
    IF rs = <<>> THEN <<>>
    ELSE (IF Head(rs).r # None THEN <<Head(rs).r[1]>> ELSE <<>>) \o NotNone(Tail(rs))

\* lines 534-540: every task is done; filter, give up or announce stitching
Collect(p) ==
    /\ pc[p] = "fetching"
    /\ \A i \in DOMAIN results[p] : results[p][i].st = "done"
    /\ LET data == NotNone(results[p])
       IN  /\ image_data' = [image_data EXCEPT ![p] = data]
           /\ IF NoImageData(data)
              THEN /\ Finish(p, Returned(None, Some("Failed to download images")))
                   /\ UNCHANGED <<notified, calls>>
              ELSE /\ notified' = [notified EXCEPT ![p] = Tell(p, [msg |-> "Stitching images", n |-> Len(data)])]
                   /\ calls' = IF req[p].progress_callback = "none" THEN calls
                               ELSE Count(p, "progress_callback")
                   /\ IF TellRaises(req[p].progress_callback)
                      THEN Finish(p, Raised)
                      ELSE pc' = [pc EXCEPT ![p] = "stitching"] /\ UNCHANGED ret
    /\ UNCHANGED <<req, chapter_url, images, results>>
    /\ UNCHANGED sharedVars
    /\ UNCHANGED <<scroll, sent>>
    /\ UNCHANGED outsideVars

\* lines 543-549: stitch_images in an executor thread, and the final return
Stitch(p) ==
    /\ pc[p] = "stitching"
    /\ LET stitched_images == stitch_images(image_data[p], STITCH_HEIGHT)
       IN  IF ~AllDecodable(image_data[p]) /\ ~Catches("stitch_images")
           THEN Finish(p, Raised)
           ELSE Finish(p, StitchOutcome(stitched_images))
    /\ calls' = Count(p, "stitch_images")
    /\ UNCHANGED <<req, chapter_url, images, results, image_data, notified>>
    /\ UNCHANGED sharedVars
    /\ UNCHANGED <<scroll, sent>>
    /\ UNCHANGED outsideVars

(***************************************************************************)
(* Spec: one download_chapter run, every input                             *)
(***************************************************************************)
Next ==
    \E p \in {1} :
        \/ Start(p, Sites, BaseUrls, Callbacks)
        \/ ScrapeRequests(p, AllDocs)
        \/ SelCheck(p)
        \/ SelInit(p)
        \/ SelGet(p, AllDocs)
        \/ SelWait(p)
        \/ SelScroll(p, DocHeights)
        \/ SelScrollTo(p)
        \/ SelHarvest(p)
        \/ FetchBegin(p)
        \/ FetchEnd(p, Responses)
        \/ Collect(p)
        \/ Stitch(p)

Spec == Init /\ [][Next]_vars

\* The run is not suspended for ever: the event loop resumes the coroutine
\* and the executor thread of a stage keeps running
SpecFair == Spec /\ WF_vars(Next)

(***************************************************************************)
(* SpecConc: every pipeline may run, on the one MangaDownloader            *)
(***************************************************************************)
ConcStep(p) ==
    \/ Start(p, ConcSites, ConcBaseUrls, ConcCallbacks)
    \/ ScrapeRequests(p, ConcDocs)
    \/ SelCheck(p)
    \/ SelInit(p)
    \/ SelGet(p, ConcDocs)
    \/ SelWait(p)
    \/ SelScroll(p, ConcDocHeights)
    \/ SelScrollTo(p)
    \/ SelHarvest(p)
    \/ FetchBegin(p)
    \/ FetchEnd(p, ConcResponses)
    \/ Collect(p)
    \/ Stitch(p)

NextConc == \E p \in Pipelines : ConcStep(p)

SpecConc == Init /\ [][NextConc]_vars

\* The event loop resumes every coroutine that is ready and the executor
\* pools run every job they were given: a pipeline that can take a step
\* is not passed over forever.
SpecConcFair == SpecConc /\ \A p \in Pipelines : WF_vars(ConcStep(p))

(***************************************************************************)
(* SpecFetch: one download_chapter run on a chapter of FetchBatch images   *)
(***************************************************************************)
NextFetch ==
    \E p \in {1} :
        \/ Start(p, {"Naver Webtoon"}, {NaverBase}, {"none"})
        \/ ScrapeRequests(p, {BatchDoc})
        \/ FetchBegin(p)
        \/ FetchEnd(p, ConcResponses)
        \/ Collect(p)
        \/ Stitch(p)

SpecFetch == Init /\ [][NextFetch]_vars

(***************************************************************************)
(* SpecStitch: stitch_images on every list of up to MaxImgs images         *)
(***************************************************************************)
\* The pictures fed to the stitcher, <<height, width>>: heights below and
\* above the limit, an even and an odd difference between two widths
ImgShapes == {<<3000, 600>>, <<3000, 601>>, <<5000, 600>>, <<5000, 800>>, <<15000, 601>>, <<15000, 800>>}
MaxHeights == {10000, STITCH_HEIGHT}

ImagesOfLen(n) ==
    { [i \in 1..n |-> [id |-> i, height |-> f[i][1], width |-> f[i][2], ok |-> f[i][3]]] :
        f \in [1..n -> {<<sh[1], sh[2], ok>> : sh \in ImgShapes, ok \in BOOLEAN}] }

InitStitch ==
    /\ st_pc = "input"
    /\ st_images \in UNION {ImagesOfLen(n) : n \in 0..MaxImgs}
    /\ st_max_height \in MaxHeights
    /\ st_pages = <<>>
    /\ InitPipelines
    /\ InitCallersIdle
    /\ InitLoopIdle

StitchCall ==
    /\ st_pc = "input"
    /\ st_pc' = "done"
    /\ st_pages' = stitch_images(st_images, st_max_height)
    /\ UNCHANGED <<st_images, st_max_height>>
    /\ UNCHANGED sharedVars
    /\ UNCHANGED pipeVars
    /\ UNCHANGED callerVars
    /\ UNCHANGED loopVars

NextStitch == StitchCall

SpecStitch == InitStitch /\ [][NextStitch]_vars

(***************************************************************************)
(* The callers of download_chapter: /download and /batch (src/main.py).    *)
(* download_chapter is seen from outside here: it is called with a chapter *)
(* number and returns pages or an error.                                   *)
(***************************************************************************)
\* Cells of the sheet are strings; int(cell.strip()) gives a number or
\* raises ValueError
Cells == {"", "0", "1", "2", " 2 ", "-3", "x", "  ", "Monday", "monday ", "MONDAY", "Tuesday"}
strip(cell) ==
    CASE cell = " 2 " -> "2"
      [] cell = "  " -> ""
      [] cell = "monday " -> "monday"
      [] cell = " comic.naver.com " -> "comic.naver.com"
      [] OTHER -> cell
lower(text) ==
    CASE text \in {"Monday", "MONDAY"} -> "monday"
      [] text = "Tuesday" -> "tuesday"
      [] OTHER -> text
int(text) ==
    CASE text = "0" -> Some(0)
      [] text = "1" -> Some(1)
      [] text = "2" -> Some(2)
      [] text = "-3" -> Some(0 - 3)
      [] OTHER -> None                      \* ValueError

\* What get_skip_value_from_sheet finds for the URL of the command: no
\* scheduler, no row of that URL or a failed read (<<>>), or the row's
\* cell of column M
SkipLookups == {None} \cup {Some(c) : c \in {"", "2", " 2 ", "-3", "x"}}
get_skip_value_from_sheet(found) ==
    IF found = None THEN 0
    ELSE LET skip_str == IF found[1] # "" THEN strip(found[1]) ELSE "0"
         IN  IF int(skip_str) # None THEN int(skip_str)[1] ELSE 0

\* "comic.naver.com" in url, "webtoons.com" in url, "manga.line.me" in url
UrlHosts == {"comic.naver.com", "www.webtoons.com", "manga.line.me", "example.org"}
detect_site(host) ==
    CASE host = "comic.naver.com" -> Some("Naver Webtoon")
      [] host = "www.webtoons.com" -> Some("Webtoons.com (Global)")
      [] host = "manga.line.me" -> Some("LINE Manga")
      [] OTHER -> None

\* An item of a run is taken up: download_chapter(site, url, chapter) is
\* called for it, or it is given up before any call
Called(item, chapter) == [op |-> "download_chapter", item |-> item, chapter |-> chapter]
Skipped(item, chapter) == [op |-> "skip", item |-> item, chapter |-> chapter]

\* What a Drive call or a download_chapter call answers
Answers == {"ok", "failed"}

CallerDone(reply) ==
    /\ c_pc' = "done"
    /\ c_req' = [c_req EXCEPT !.reply = reply]

\* /download, lines 144-186: checks, skip value, download_chapter
DownloadCommand ==
    /\ c_pc = "off"
    /\ \E chapter \in 0..MaxChapter, site \in {"auto", "Naver Webtoon"}, host \in UrlHosts,
          found \in SkipLookups :
          LET skip_value == get_skip_value_from_sheet(found)
              actual_chapter == chapter + skip_value
              r == [kind |-> "download", chapter |-> chapter, host |-> host,
                    skip_value |-> skip_value, reply |-> ""]
          IN  IF chapter < 1
              THEN /\ c_pc' = "done"
                   /\ c_req' = [r EXCEPT !.reply = "Invalid chapter number"]
                   /\ UNCHANGED c_log
              ELSE IF site = "auto" /\ detect_site(host) = None
              THEN /\ c_pc' = "done"
                   /\ c_req' = [r EXCEPT !.reply = "Could not detect site"]
                   /\ UNCHANGED c_log
              ELSE /\ c_pc' = "dl_download"
                   /\ c_req' = r
                   /\ c_log' = Append(c_log, Called(chapter, actual_chapter))
    /\ UNCHANGED <<c_i, c_tasks, c_folder, c_failed, c_results, c_uploaded>>
    /\ UNCHANGED <<stitchVars, sharedVars, pipeVars, loopVars>>

\* The upload loop over the stitched pages of a chapter: upload_file answers
\* (None, None) for a page it could not upload, so uploaded_count is any
\* number from 0 to the number of pages
UploadCounts == 0..MaxUploads
Uploaded(chapter, uploaded_count) == [chapter |-> chapter, uploaded_count |-> uploaded_count]

\* "if uploaded_count > 0" of /batch, "if uploaded_count == 0" of the
\* scheduler: the chapter counts as uploaded
uploaded_always(uploaded_count) == TRUE
uploaded_any(uploaded_count) == uploaded_count > 0

\* /download, lines 186-243: the answer of download_chapter, the folder of
\* the requested chapter, the upload loop, the "Upload Complete!" embed that
\* follows the loop whatever uploaded_count is
DownloadCommandEnd ==
    /\ c_pc = "dl_download"
    /\ \E answer \in Answers, folder \in Answers, uploaded_count \in UploadCounts :
          IF answer = "failed"
          THEN /\ CallerDone("Failed") /\ c_failed' = c_failed + 1
               /\ UNCHANGED <<c_folder, c_uploaded>>
          ELSE IF folder = "failed"
          THEN /\ CallerDone("Failed to create Google Drive folder")
               /\ c_failed' = c_failed + 1 /\ UNCHANGED <<c_folder, c_uploaded>>
          ELSE /\ c_folder' = Some([kind |-> "chapter", chapter |-> c_req.chapter])
               /\ c_uploaded' = Some(Uploaded(c_req.chapter, uploaded_count))
               /\ CallerDone("Upload Complete") /\ UNCHANGED c_failed
    /\ UNCHANGED <<c_i, c_tasks, c_log, c_results>>
    /\ UNCHANGED <<stitchVars, sharedVars, pipeVars, loopVars>>

\* /batch, line 258: the range is too long
TooManyChapters(start_chapter, end_chapter) == end_chapter - start_chapter > MaxBatchSpan

\* /batch, lines 251-299: checks, skip value, the main folder
BatchCommand ==
    /\ c_pc = "off"
    /\ \E start_chapter \in 0..MaxStart, end_chapter \in 0..MaxBatchEnd,
          host \in {"comic.naver.com", "example.org"}, found \in SkipLookups, folder \in Answers :
          LET r == [kind |-> "batch", start_chapter |-> start_chapter, end_chapter |-> end_chapter,
                    host |-> host, skip_value |-> get_skip_value_from_sheet(found), reply |-> ""]
          IN  IF start_chapter < 1 \/ end_chapter < start_chapter
              THEN /\ c_pc' = "done" /\ c_req' = [r EXCEPT !.reply = "Invalid range"]
                   /\ UNCHANGED <<c_i, c_folder>>
              ELSE IF TooManyChapters(start_chapter, end_chapter)
              THEN /\ c_pc' = "done" /\ c_req' = [r EXCEPT !.reply = "Max 10 chapters per batch"]
                   /\ UNCHANGED <<c_i, c_folder>>
              ELSE IF detect_site(host) = None
              THEN /\ c_pc' = "done" /\ c_req' = [r EXCEPT !.reply = "Unsupported site"]
                   /\ UNCHANGED <<c_i, c_folder>>
              ELSE IF folder = "failed"
              THEN /\ c_pc' = "done" /\ c_req' = [r EXCEPT !.reply = "Failed to create main folder"]
                   /\ UNCHANGED <<c_i, c_folder>>
              ELSE /\ c_pc' = "b_loop" /\ c_req' = r
                   /\ c_i' = start_chapter
                   /\ c_folder' = Some([kind |-> "batch", chapter |-> start_chapter])
    /\ UNCHANGED <<c_tasks, c_log, c_failed, c_results, c_uploaded>>
    /\ UNCHANGED <<stitchVars, sharedVars, pipeVars, loopVars>>

\* /batch, lines 301-305: "for ch in range(start_chapter, end_chapter + 1)",
\* the download_chapter call of ch; lines 358-388 after the loop
BatchNext ==
    /\ c_pc = "b_loop"
    /\ IF c_i > c_req.end_chapter
       THEN /\ CallerDone(IF c_failed < Len(c_log) THEN "Batch Upload Complete"
                          ELSE "No chapters were successfully uploaded")
            /\ UNCHANGED c_log
       ELSE /\ c_log' = Append(c_log, Called(c_i, c_i + c_req.skip_value))
            /\ c_pc' = "b_download"
            /\ UNCHANGED c_req
    /\ UNCHANGED <<c_i, c_tasks, c_folder, c_failed, c_results, c_uploaded>>
    /\ UNCHANGED <<stitchVars, sharedVars, pipeVars, loopVars>>

\* "continue" after a failed item: the loop goes on with the item after i
break_after_failure(i, last) == last + 1
continue_after_failure(i, last) == i + 1

\* /batch, lines 307-356: the answer of download_chapter, the folder of
\* ch, the upload; then the next ch whatever happened
BatchChapter ==
    /\ c_pc = "b_download"
    /\ \E answer \in Answers, folder \in Answers, uploaded_count \in UploadCounts :
          IF answer = "failed" \/ folder = "failed"
          THEN /\ c_failed' = c_failed + 1 /\ UNCHANGED <<c_folder, c_uploaded>>
               /\ c_i' = continue_after_failure(c_i, c_req.end_chapter)
          ELSE /\ c_folder' = Some([kind |-> "chapter", chapter |-> c_i])
               /\ c_uploaded' = Some(Uploaded(c_i, uploaded_count))
               /\ c_failed' = IF uploaded_any(uploaded_count) THEN c_failed ELSE c_failed + 1
               /\ c_i' = c_i + 1
    /\ c_pc' = "b_loop"
    /\ UNCHANGED <<c_req, c_tasks, c_log, c_results>>
    /\ UNCHANGED <<stitchVars, sharedVars, pipeVars, loopVars>>

(***************************************************************************)
(* The daily run of the scheduler (src/scheduler.py)                       *)
(***************************************************************************)
\* A row of the PROGRESS sheet, read over A:M: the API leaves out the empty
\* cells at the end of a row.  Column A title, B URL, D last chapter,
\* K day, M skip.
Row(title, url, last, day, skip, ncols) ==
    SubSeq(<<title, url, "", last, "", "", "", "", "", "", day, "", skip>>, 1, ncols)

RowKinds ==
    { Row("A", "comic.naver.com", "1", "Monday", "2", 13),
      Row("B", "manga.line.me", "2", "monday ", "", 11),
      Row("C", "comic.naver.com", "", "MONDAY", "  ", 13),
      Row("D", "comic.naver.com", "x", "Monday", "0", 13),
      Row("E", "comic.naver.com", "  ", "Monday", "0", 13),
      Row("F", "comic.naver.com", "1", "Monday", "x", 13),
      Row("G", "comic.naver.com", "1", "", "", 4),
      Row("H", "", "1", "Monday", "0", 13),
      Row("I", "comic.naver.com", "0", "Tuesday", " 2 ", 13),
      Row("J", "comic.naver.com", "1", "Monday", "-3", 13),
      Row("K", "example.org", "1", "Monday", "0", 13) }

RECURSIVE SheetsOfLen(_)
SheetsOfLen(n) ==
    IF n = 0 THEN {<<>>}
    ELSE {Append(sheet, row) : sheet \in SheetsOfLen(n - 1), row \in RowKinds}
Sheets == UNION {SheetsOfLen(n) : n \in 0..MaxRows}
Days == {"Monday", "Tuesday"}

\* row[idx].strip() if len(row) > idx and row[idx] else default
cell_at(row, idx, default) ==
    IF Len(row) > idx /\ row[idx + 1] # "" THEN strip(row[idx + 1]) ELSE default

\* lines 243-244: "if len(row) < 11: continue"
TooShort(row) == Len(row) < MinColumns

\* lines 264-266
next_chapter_without_skip(last_chapter, skip_chapters) == last_chapter + 1
next_chapter_of(last_chapter, skip_chapters) == last_chapter + 1 + skip_chapters

\* lines 242-295: the task of one row, <<>> when the row yields none
task_of_row(row, row_idx, today_name) ==
    IF TooShort(row) THEN <<>>
    ELSE IF lower(cell_at(row, 10, "")) # lower(today_name) THEN <<>>
    ELSE LET url == cell_at(row, 1, "")
             last_chapter_str == cell_at(row, 3, "0")
             title == cell_at(row, 0, "Unknown")
             skip_chapters_str == cell_at(row, 12, "0")
             last_chapter == int(last_chapter_str)
             skip_chapters == IF skip_chapters_str # "" THEN int(skip_chapters_str) ELSE Some(0)
         IN  IF last_chapter = None \/ skip_chapters = None THEN <<>>     \* ValueError: continue
             ELSE IF url = "" THEN <<>>
             ELSE <<[row_number |-> row_idx, title |-> title, url |-> url,
                     chapter |-> next_chapter_of(last_chapter[1], skip_chapters[1]),
                     last_chapter |-> last_chapter[1], skip_chapters |-> skip_chapters[1]]>>

\* "for row_idx, row in enumerate(progress_data[1:], start=2)"
RECURSIVE tasks_from(_, _, _)
tasks_from(rows, row_idx, today_name) ==
    IF rows = <<>> THEN <<>>
    ELSE task_of_row(Head(rows), row_idx, today_name)
             \o tasks_from(Tail(rows), row_idx + 1, today_name)

\* progress_data is the header row followed by rows; no data row, or a
\* failed read, gives no task
get_today_tasks(rows, today_name) == tasks_from(rows, 2, today_name)

\* display_chapter = last_chapter + 1
display_chapter_of(task) == task.last_chapter + 1

\* process_daily_tasks, lines 449-462: the tasks of today, "results = []"
DailyStart ==
    /\ c_pc = "off"
    /\ \E rows \in Sheets, today_name \in Days :
          LET tasks == get_today_tasks(rows, today_name)
          IN  /\ c_tasks' = tasks
              /\ c_req' = [kind |-> "daily", rows |-> rows, today_name |-> today_name,
                           reply |-> "", summary |-> None]
              /\ IF tasks = <<>>
                 THEN c_pc' = "done" /\ UNCHANGED c_i
                 ELSE c_pc' = "d_loop" /\ c_i' = 1
    /\ c_results' = <<>>
    /\ UNCHANGED <<c_log, c_folder, c_failed, c_uploaded>>
    /\ UNCHANGED <<stitchVars, sharedVars, pipeVars, loopVars>>

\* lines 466-470: the folder of the Config sheet ("" for None), else the
\* value of GOOGLE_DRIVE_FOLDER_ID ("" when unset)
ConfigFolders == {"config", ""}
DefaultFolders == {"GOOGLE_DRIVE_FOLDER_ID", ""}
destination_folder_of(config_folder, default_folder) ==
    IF config_folder # "" THEN config_folder ELSE default_folder

\* A task given up at line 478 for want of a destination folder
NoFolder(item, chapter) == [op |-> "no_folder", item |-> item, chapter |-> chapter]

\* What download_and_upload_chapter returns for task number item
Result(item, success, uploaded_count) ==
    [item |-> item, success |-> success, uploaded_count |-> uploaded_count]

\* lines 503-504
CountSuccessful(rs) == Cardinality({k \in DOMAIN rs : rs[k].success})
summary_of(rs) ==
    LET successful == CountSuccessful(rs)
        failed == Len(rs) - successful
    IN  [successful |-> successful, failed |-> failed, total |-> Len(rs)]

\* lines 464-482 and 330-364: "for task in tasks": the destination folder,
\* then download_and_upload_chapter: the site of the URL, the
\* download_chapter call; lines 502-514 after the loop
DailyNext ==
    /\ c_pc = "d_loop"
    /\ IF c_i > Len(c_tasks)
       THEN /\ c_pc' = "done"
            /\ c_req' = [c_req EXCEPT !.reply = "Daily Download Summary",
                                      !.summary = Some(summary_of(c_results))]
            /\ UNCHANGED <<c_i, c_log, c_failed, c_results>>
       ELSE LET task == c_tasks[c_i]
            IN  \E config_folder \in ConfigFolders, default_folder \in DefaultFolders :
                   IF destination_folder_of(config_folder, default_folder) = ""
                   THEN /\ c_log' = Append(c_log, NoFolder(c_i, task.chapter))
                        /\ c_failed' = c_failed + 1
                        /\ c_i' = continue_after_failure(c_i, Len(c_tasks))
                        /\ UNCHANGED <<c_pc, c_req, c_results>>
                   ELSE IF detect_site(task.url) = None
                   THEN /\ c_log' = Append(c_log, Skipped(c_i, task.chapter))
                        /\ c_results' = Append(c_results, Result(c_i, FALSE, 0))
                        /\ c_failed' = c_failed + 1
                        /\ c_i' = continue_after_failure(c_i, Len(c_tasks))
                        /\ UNCHANGED <<c_pc, c_req>>
                   ELSE /\ c_log' = Append(c_log, Called(c_i, task.chapter))
                        /\ c_pc' = "d_download"
                        /\ UNCHANGED <<c_i, c_req, c_failed, c_results>>
    /\ UNCHANGED <<c_tasks, c_folder, c_uploaded>>
    /\ UNCHANGED <<stitchVars, sharedVars, pipeVars, loopVars>>

\* lines 364-442 and 481-500: the answer of download_chapter, the folder
\* named after the display chapter, the upload loop, the result appended to
\* results; then the next task
DailyChapter ==
    /\ c_pc = "d_download"
    /\ \E answer \in Answers, folder \in Answers, uploaded_count \in UploadCounts :
          IF answer = "failed" \/ folder = "failed"
          THEN /\ c_results' = Append(c_results, Result(c_i, FALSE, 0))
               /\ c_failed' = c_failed + 1 /\ UNCHANGED <<c_folder, c_uploaded>>
               /\ c_i' = continue_after_failure(c_i, Len(c_tasks))
          ELSE /\ c_folder' = Some([kind |-> "chapter", chapter |-> display_chapter_of(c_tasks[c_i])])
               /\ c_uploaded' = Some(Uploaded(display_chapter_of(c_tasks[c_i]), uploaded_count))
               /\ c_results' = Append(c_results,
                                      Result(c_i, uploaded_any(uploaded_count), uploaded_count))
               /\ c_failed' = IF uploaded_any(uploaded_count) THEN c_failed ELSE c_failed + 1
               /\ c_i' = c_i + 1
    /\ c_pc' = "d_loop"
    /\ UNCHANGED <<c_req, c_tasks, c_log>>
    /\ UNCHANGED <<stitchVars, sharedVars, pipeVars, loopVars>>

(***************************************************************************)
(* get_skip_value_from_sheet as a whole (src/downloader.py): the sheet     *)
(* read, the search for the row of the URL, the value of its cell          *)
(***************************************************************************)
\* lines 55-60: the cell of column M of the first row whose URL, stripped,
\* is url ("" when the row ends before column M); <<>> when no row has it
RECURSIVE find_skip_cell_last(_, _)
find_skip_cell_last(rows, url) ==
    IF rows = <<>> THEN None
    ELSE LET row == rows[Len(rows)]
         IN  IF Len(row) > 1 /\ strip(row[2]) = url
             THEN Some(IF Len(row) > 12 THEN row[13] ELSE "")
             ELSE find_skip_cell_last(SubSeq(rows, 1, Len(rows) - 1), url)
RECURSIVE find_skip_cell(_, _)
find_skip_cell(rows, url) ==
    IF rows = <<>> THEN None
    ELSE LET row == Head(rows)
         IN  IF Len(row) > 1 /\ strip(row[2]) = url
             THEN Some(IF Len(row) > 12 THEN row[13] ELSE "")
             ELSE find_skip_cell(Tail(rows), url)

\* What read_sheet_data gives: None, the rows of A:M with the header row
\* first, or an exception raised while the sheet is read or searched
ReadNone == [kind |-> "None", values |-> <<>>]
ReadRaises == [kind |-> "raises", values |-> <<>>]
ReadValues(values) == [kind |-> "values", values |-> values]

\* lines 40-74
skip_value_from_sheet(url, sheet_scheduler, progress_data) ==
    IF ~sheet_scheduler THEN 0
    ELSE IF progress_data.kind = "raises" THEN 0
    ELSE IF progress_data.kind = "None" \/ Len(progress_data.values) < 2 THEN 0
    ELSE get_skip_value_from_sheet(find_skip_cell(Tail(progress_data.values), url))

HeaderRow == Row("Title", "URL", "Last", "Day", "Skip", 13)
SkipRowKinds ==
    { Row("A", "comic.naver.com", "1", "Monday", "2", 13),
      Row("B", "comic.naver.com", "1", "Monday", "x", 13),
      Row("C", " comic.naver.com ", "1", "Monday", " 2 ", 13),
      Row("D", "comic.naver.com", "1", "Monday", "", 11),
      Row("E", "comic.naver.com", "1", "Monday", "  ", 13),
      Row("F", "manga.line.me", "1", "Monday", "-3", 13),
      Row("G", "comic.naver.com", "1", "Monday", "2", 1),
      Row("H", "", "1", "Monday", "1", 13),
      Row("I", "comic.naver.com", "1", "Monday", "-3", 13) }
RECURSIVE SkipSheetsOfLen(_)
SkipSheetsOfLen(n) ==
    IF n = 0 THEN {<<>>}
    ELSE {Append(sheet, row) : sheet \in SkipSheetsOfLen(n - 1), row \in SkipRowKinds}
SkipReads ==
    {ReadNone, ReadRaises, ReadValues(<<>>)}
        \cup {ReadValues(<<HeaderRow>> \o rows) : rows \in UNION {SkipSheetsOfLen(n) : n \in 0..MaxRows}}
SkipUrls == {"comic.naver.com", "manga.line.me", "example.org"}

\* A call get_skip_value_from_sheet(url, sheet_scheduler) about to be made
InitSkip ==
    /\ c_pc = "skip_input"
    /\ c_req \in {[kind |-> "skip", url |-> url, sheet_scheduler |-> sheet_scheduler,
                   progress_data |-> progress_data, skip_value |-> None] :
                     url \in SkipUrls, sheet_scheduler \in BOOLEAN, progress_data \in SkipReads}
    /\ c_i = 0
    /\ c_tasks = <<>>
    /\ c_log = <<>>
    /\ c_folder = None
    /\ c_failed = 0
    /\ c_results = <<>>
    /\ c_uploaded = None
    /\ InitPipelines
    /\ InitStitchIdle
    /\ InitLoopIdle

SkipCall ==
    /\ c_pc = "skip_input"
    /\ c_pc' = "done"
    /\ c_req' = [c_req EXCEPT !.skip_value =
                    Some(skip_value_from_sheet(c_req.url, c_req.sheet_scheduler, c_req.progress_data))]
    /\ UNCHANGED <<c_i, c_tasks, c_log, c_folder, c_failed, c_results, c_uploaded>>
    /\ UNCHANGED <<stitchVars, sharedVars, pipeVars, loopVars>>

NextSkip == SkipCall

SpecSkip == InitSkip /\ [][NextSkip]_vars

(***************************************************************************)
(* SpecCallers: one /download, /batch or daily run, every input            *)
(***************************************************************************)
NextCallers ==
    \/ DownloadCommand
    \/ DownloadCommandEnd
    \/ BatchCommand
    \/ BatchNext
    \/ BatchChapter
    \/ DailyStart
    \/ DailyNext
    \/ DailyChapter

SpecCallers == Init /\ [][NextCallers]_vars

(***************************************************************************)
(* SheetScheduler.schedule_loop.  An instant is a number of minutes since  *)
(* midnight of day 0 in the configured zone, which has a fixed offset.     *)
(***************************************************************************)
\* SCHEDULE_TIME = time(15, 5)
ScheduleMinute == 15 * 60 + 5

Date(t) == t \div DayMinutes
\* TIMEZONE.localize(datetime.combine(date, SCHEDULE_TIME))
ScheduledAt(date) == date * DayMinutes + ScheduleMinute

\* lines 542-554: today's instant, or tomorrow's once today's has passed
todays_scheduled_time(now) == ScheduledAt(Date(now))
next_scheduled_time(now) ==
    IF now >= ScheduledAt(Date(now))
    THEN ScheduledAt(Date(now + DayMinutes))
    ELSE ScheduledAt(Date(now))

\* When the bot gets ready, how late a sleep wakes, how long the daily
\* tasks take
StartMinutes == {0, ScheduleMinute - 1, ScheduleMinute, ScheduleMinute + 1, DayMinutes - 1}
Lateness == {0, 1}
Durations == {0, 30, DayMinutes - ScheduleMinute, DayMinutes + 10}
MaxOf(a, b) == IF a >= b THEN a ELSE b

\* lines 525-540: the bot is ready, the loop starts
LoopStart ==
    /\ sl_pc = "off"
    /\ \E now \in StartMinutes : sl_now' = now
    /\ sl_pc' = "top"
    /\ UNCHANGED <<sl_target, sl_runs>>
    /\ UNCHANGED <<stitchVars, sharedVars, pipeVars, callerVars>>

\* lines 542-558: now, scheduled_time, wait_seconds
LoopCompute ==
    /\ sl_pc = "top"
    /\ sl_target' = next_scheduled_time(sl_now)
    /\ sl_pc' = "sleeping"
    /\ UNCHANGED <<sl_now, sl_runs>>
    /\ UNCHANGED <<stitchVars, sharedVars, pipeVars, callerVars>>

\* lines 561-565: asyncio.sleep(wait_seconds) is over, not before the wait
\* has passed (at once when it is not positive); process_daily_tasks starts
LoopWake ==
    /\ sl_pc = "sleeping"
    /\ \E late \in Lateness :
          LET woke == MaxOf(sl_now, sl_target) + late
          IN  /\ woke <= MaxDays * DayMinutes
              /\ sl_now' = woke
              /\ sl_runs' = Append(sl_runs, [at |-> woke, target |-> sl_target])
    /\ sl_pc' = "running"
    /\ UNCHANGED sl_target
    /\ UNCHANGED <<stitchVars, sharedVars, pipeVars, callerVars>>

\* lines 565-575: process_daily_tasks returns and the loop sleeps 60 s, or
\* it raises and the loop sleeps an hour; then the next round
LoopRun ==
    /\ sl_pc = "running"
    /\ \E duration \in Durations, pause \in {AfterRunSleep, ErrorSleep}, late \in Lateness :
          sl_now' = sl_now + duration + pause + late
    /\ sl_pc' = "top"
    /\ UNCHANGED <<sl_target, sl_runs>>
    /\ UNCHANGED <<stitchVars, sharedVars, pipeVars, callerVars>>

NextLoop == LoopStart \/ LoopCompute \/ LoopWake \/ LoopRun

SpecLoop == Init /\ [][NextLoop]_vars

(***************************************************************************)
(* Properties                                                              *)
(***************************************************************************)
Outcome(p) == ret[p][1]
Fails(p, reason) == ret[p] = Some(Returned(None, Some(reason)))
Succeeds(p) == ret[p] # None /\ Outcome(p).kind = "return" /\ Outcome(p).pages # None

PagesOf(p) == Outcome(p).pages[1]
MembersOf(pages) == Flatten([k \in DOMAIN pages |-> pages[k].members])
NoDuplicates(s) == \A i, j \in DOMAIN s : i # j => s[i] # s[j]
Scraping(p) ==
    pc[p] \in {"requests", "selenium", "sel_init", "sel_get", "sel_wait", "sel_scroll", "sel_scrolling", "sel_harvest"}
ScraperCalls(p) == calls[p].scrape_with_requests + calls[p].scrape_with_selenium

\* C1 (as claimed): at most one navigate-scroll-harvest sequence of
\* scrape_with_selenium is in flight on the shared browser session at any
\* moment.
C1_OneScrapeInFlight == Cardinality({p \in Pipelines : InFlight(p)}) <= 1

\* C2: every returned result of download_chapter is either (non-empty list
\* of pages, no error) or (no pages, a reason); a success was stitched, by
\* one stitch call, from the images fetched, of which there is at least one.
C2_ResultShape ==
    \A p \in Pipelines :
        (ret[p] # None /\ Outcome(p).kind = "return") =>
            \/ /\ Outcome(p).pages # None
               /\ Outcome(p).error = None
               /\ PagesOf(p) # <<>>
               /\ image_data[p] # <<>>
               /\ \E i \in DOMAIN results[p] : results[p][i].response = "200"
               /\ calls[p].stitch_images = 1
               /\ \A k \in DOMAIN PagesOf(p) : PagesOf(p)[k].members # <<>>
               /\ MembersOf(PagesOf(p)) = image_data[p]
            \/ /\ Outcome(p).pages = None
               /\ Outcome(p).error # None
C2_Witness ==
    /\ Succeeds(1)
    /\ Len(PagesOf(1)) = 2
    /\ Len(image_data[1]) < Len(images[1])

\* C3: every page stitch_images returns is at most max_height high, unless
\* it holds exactly one image that is itself higher than max_height; the
\* height of a page is the sum of the heights of its images.
C3_HeightBound ==
    \A k \in DOMAIN st_pages :
        /\ st_pages[k].height = SumHeights(st_pages[k].members)
        /\ \/ st_pages[k].height <= st_max_height
           \/ /\ Len(st_pages[k].members) = 1
              /\ st_pages[k].members[1].height > st_max_height
C3_Witness ==
    /\ st_pc = "done"
    /\ \E k \in DOMAIN st_pages :
          Len(st_pages[k].members) = 2 /\ st_pages[k].height = st_max_height
    /\ \E k \in DOMAIN st_pages : st_pages[k].height > st_max_height

\* C4: for a non-empty list of decodable images, the images of the returned
\* pages, concatenated in page order, are the input list.
C4_OrderPreserved ==
    (st_pc = "done" /\ st_images # <<>> /\ AllDecodable(st_images)) =>
        /\ st_pages # <<>>
        /\ MembersOf(st_pages) = st_images
C4_Witness ==
    /\ st_pc = "done"
    /\ Len(st_images) = 3
    /\ Len(st_pages) = 2
    /\ MembersOf(st_pages) = st_images

C6_ScrapedListDistinct == \A p \in Pipelines : NoDuplicates(images[p])

\* The slots of the image requests answered 200, and the k-th of them
OkSlots(p) == {i \in DOMAIN results[p] : results[p][i].response \in {"200", "200 corrupt"}}
KthOkSlot(p, k) == CHOOSE i \in OkSlots(p) : Cardinality({j \in OkSlots(p) : j < i}) = k - 1
Collected(p) ==
    /\ results[p] # <<>>
    /\ \A i \in DOMAIN results[p] : results[p][i].st = "done"
    /\ pc[p] # "fetching"

\* C7: once the batch is collected, every scraped URL was requested once,
\* and the list for the stitcher holds the images of exactly the requests
\* answered 200, in the order of their URLs in the scraped list; with at
\* least one success the run goes on to stitching.
C7_FetchOrder ==
    \A p \in Pipelines :
        Collected(p) =>
            /\ calls[p].download_image = Len(images[p])
            /\ Len(image_data[p]) = Cardinality(OkSlots(p))
            /\ \A k \in DOMAIN image_data[p] : image_data[p][k].id = images[p][KthOkSlot(p, k)]
            /\ OkSlots(p) # {} =>
                  (pc[p] = "stitching" \/ calls[p].stitch_images = 1 \/ ret[p] = Some(Raised))
C7_Witness ==
    /\ Collected(1)
    /\ Len(images[1]) = 3
    /\ results[1][1].response = "200"
    /\ results[1][2].response = "404"
    /\ results[1][3].response = "200"
    /\ pc[1] = "stitching"

AllFetchesFailed(p) ==
    /\ results[p] # <<>>
    /\ \A i \in DOMAIN results[p] : results[p][i].response \in {"404", "error"}

\* C8: if every image request of a run failed, the run ends with "Failed to
\* download images" and stitch_images is never called.
C8_FetchExhaustion ==
    \A p \in Pipelines :
        AllFetchesFailed(p) =>
            /\ calls[p].stitch_images = 0
            /\ pc[p] = "fetching" \/ Fails(p, "Failed to download images")
C8_Witness ==
    /\ AllFetchesFailed(1)
    /\ Len(results[1]) = 3
    /\ Fails(1, "Failed to download images")

\* The pattern get_chapter_url looks for, by site
TokenOf(site) ==
    CASE site = "Naver Webtoon" -> "titleId"
      [] site = "Webtoons.com (Global)" -> "title_no"
      [] site = "LINE Manga" -> "product"
      [] OTHER -> ""
NotFoundRequest(p) ==
    /\ pc[p] # "idle"
    /\ IF TokenOf(req[p].site) = "" THEN TRUE ELSE req[p].base_url[TokenOf(req[p].site)] = ""

\* C9: for an unrecognized site or a base URL without the site's token, the
\* run ends with "Invalid URL format", having called no scraper, touched no
\* browser, sent no request and told the observer nothing.
C9_InvalidUrl ==
    \A p \in Pipelines :
        NotFoundRequest(p) =>
            /\ chapter_url[p] = None
            /\ Fails(p, "Invalid URL format")
            /\ calls[p] = [NoCalls EXCEPT !.get_chapter_url = 1]
            /\ notified[p] = <<>>
            /\ images[p] = <<>> /\ results[p] = <<>>
            /\ driver = None /\ browser.instances = 0
C9_Witness ==
    /\ NotFoundRequest(1)
    /\ req[1].site = "Webtoons.com (Global)"
    /\ req[1].base_url = NaverBase
    /\ req[1].progress_callback = "ok"
    /\ Fails(1, "Invalid URL format")

EmptyScrape(p) == ScraperCalls(p) > 0 /\ ~Scraping(p) /\ images[p] = <<>>

\* C10: when the scraper returns an empty list, the run ends with "No images
\* found or chapter locked"; no image is requested and stitch_images is not
\* called.
C10_EmptyScrape ==
    \A p \in Pipelines :
        EmptyScrape(p) =>
            /\ Fails(p, "No images found or chapter locked")
            /\ calls[p].download_image = 0
            /\ calls[p].stitch_images = 0
            /\ results[p] = <<>>
C10_Witness ==
    /\ EmptyScrape(1)
    /\ calls[1].scrape_with_requests = 1
    /\ calls[1].network = 1
    /\ Fails(1, "No images found or chapter locked")

\* C11: if one of the fetched images cannot be decoded, stitch_images
\* returns the empty list, whatever stands before or after the bad image,
\* and download_chapter fails with "Failed to stitch images".
C11_DecodeFailure ==
    \A p \in Pipelines :
        (calls[p].stitch_images = 1 /\ \E i \in DOMAIN image_data[p] : ~image_data[p][i].ok) =>
            /\ stitch_images(image_data[p], STITCH_HEIGHT) = <<>>
            /\ Fails(p, "Failed to stitch images")
C11_Witness ==
    /\ Len(image_data[1]) = 3
    /\ image_data[1][1].ok /\ ~image_data[1][2].ok /\ image_data[1][3].ok
    /\ Fails(1, "Failed to stitch images")

\* What lines 507-549 return from the recorded stage outputs when the
\* "if progress_callback" lines do nothing
ObserverFreeResult(p) ==
    IF chapter_url[p] = None THEN Returned(None, Some("Invalid URL format"))
    ELSE IF images[p] = <<>> THEN Returned(None, Some("No images found or chapter locked"))
    ELSE IF image_data[p] = <<>> THEN Returned(None, Some("Failed to download images"))
    ELSE IF stitch_images(image_data[p], STITCH_HEIGHT) = <<>>
         THEN Returned(None, Some("Failed to stitch images"))
    ELSE Returned(Some(stitch_images(image_data[p], STITCH_HEIGHT)), None)

\* C12: the progress observer does not affect control flow: whatever
\* observer is supplied (none, one that succeeds, one that raises), a finished
\* run ends with the result that the stage outputs alone determine.
C12_ObserverNoEffect ==
    \A p \in Pipelines : pc[p] = "done" => ret[p] = Some(ObserverFreeResult(p))

\* The part of C12 that the code keeps: an absent or a succeeding observer
\* leaves the result to the stage outputs.
C12_QuietObserverNoEffect ==
    \A p \in Pipelines :
        (pc[p] = "done" /\ req[p].progress_callback # "raises") =>
            ret[p] = Some(ObserverFreeResult(p))

\* C13: a failure inside a stage (locator mismatch, scraping error, missing
\* page structure, browser error, image fetch error, decode error) never
\* leaves download_chapter as an exception: a finished run whose outcome is a
\* raised exception got it from its progress observer, and a run that
\* returns no pages returns a failure reason.
C13_FailuresReturned ==
    \A p \in Pipelines :
        pc[p] = "done" =>
            /\ Outcome(p).kind = "raise" =>
                   (TellRaises(req[p].progress_callback) /\ notified[p] # <<>>)
            /\ (Outcome(p).kind = "return" /\ Outcome(p).pages = None) =>
                   Outcome(p).error # None
C13_Witness ==
    /\ \E i \in DOMAIN results[1] : results[1][i].response = "error"
    /\ \E i \in DOMAIN image_data[1] : ~image_data[1][i].ok
    /\ Fails(1, "Failed to stitch images")

\* Stage bookkeeping of one run
Started(p) == {i \in DOMAIN results[p] : results[p][i].st # "queued"}
FetchesOf(p, u) == Cardinality({i \in Started(p) : images[p][i] = u})
UrlsOf(p) == {images[p][i] : i \in DOMAIN images[p]}
FetchOver(p) == results[p] # <<>> /\ \A i \in DOMAIN results[p] : results[p][i].st = "done"

\* The stages run in the order Locate, Scrape, Fetch, Stitch, each after
\* the success of the one before, and locator, scraper and stitcher are
\* called at most once
StagesOnceInOrder(p) ==
    /\ calls[p].get_chapter_url <= 1
    /\ ScraperCalls(p) <= 1
    /\ calls[p].stitch_images <= 1
    /\ ScraperCalls(p) > 0 => (calls[p].get_chapter_url = 1 /\ chapter_url[p] # None)
    /\ calls[p].download_image > 0 => (ScraperCalls(p) = 1 /\ images[p] # <<>>)
    /\ pc[p] = "stitching" \/ calls[p].stitch_images > 0 => (FetchOver(p) /\ image_data[p] # <<>>)

\* C14: within one run the stages execute in the order Locate, Scrape,
\* Fetch, Stitch, each only after the earlier ones succeeded; locator, scraper
\* and stitcher are called at most once and each scraped URL is fetched
\* exactly once.
C14_EachUrlFetchedOnce ==
    \A p \in Pipelines :
        /\ StagesOnceInOrder(p)
        /\ \A u \in UrlsOf(p) : FetchesOf(p, u) <= 1
        /\ FetchOver(p) => \A u \in UrlsOf(p) : FetchesOf(p, u) = 1

\* What holds of the fetch stage: one download_image call per entry of the
\* scraped list
C14_EachEntryFetchedOnce ==
    \A p \in Pipelines :
        /\ StagesOnceInOrder(p)
        /\ calls[p].download_image = Cardinality(Started(p))
        /\ FetchOver(p) => calls[p].download_image = Len(images[p])

\* C15: every started run of download_chapter eventually reaches a terminal
\* state, whatever the other pipelines on the same MangaDownloader do, and
\* the terminal state is one: a finished run keeps its outcome.
C15_Terminates ==
    /\ \A p \in Pipelines : (pc[p] # "idle") ~> (pc[p] = "done" /\ ret[p] # None)
    /\ [][\A p \in Pipelines : pc[p] = "done" => (pc'[p] = "done" /\ ret'[p] = ret[p])]_vars
C15_Witness ==
    /\ \A p \in Pipelines : pc[p] = "done" /\ calls[p].scrape_with_selenium = 1
    /\ browser.instances >= 2
    /\ \E p \in Pipelines : Succeeds(p)

\* C16 (as claimed): when #content-all does not appear within the wait,
\* the scrape goes on to scroll the page and to harvest its images.
C16_TimeoutProceeds ==
    [][\A p \in Pipelines :
          (/\ pc[p] = "sel_wait" /\ pc'[p] # "sel_wait"
           /\ InSite("Webtoons.com", req[p].site) /\ ~browser.doc.content_all)
          => pc'[p] = "sel_scroll"]_vars

\* C16 (amended): when #content-all does not appear within the wait, the
\* scrape ends there with the empty list: nothing is scrolled or harvested
\* and download_chapter fails with "No images found or chapter locked".
C16_TimeoutEndsScrape ==
    [][\A p \in Pipelines :
          (/\ pc[p] = "sel_wait" /\ pc'[p] # "sel_wait"
           /\ InSite("Webtoons.com", req[p].site) /\ ~browser.doc.content_all)
          => /\ pc'[p] = "done"
             /\ images'[p] = <<>>
             /\ ret'[p] = Some(Returned(None, Some("No images found or chapter locked")))
             /\ calls'[p].browser_ops = 2]_vars
C16_Witness ==
    /\ Fails(1, "No images found or chapter locked")
    /\ calls[1].browser_ops = 2
    /\ InSite("Webtoons.com", req[1].site)
    /\ ~browser.doc.content_all
    /\ harvest_selenium(browser.doc, req[1].site) # <<>>

\* A step in which pipeline p's init_selenium ran and started no browser
InitFailedStep(p) ==
    /\ calls'[p].init_selenium = calls[p].init_selenium + 1
    /\ browser'.instances = browser.instances

\* C17: when the browser cannot be started, the scrape returns the empty
\* list, the pipeline ends with the failure of an empty scrape ("No images
\* found or chapter locked", a returned value of the usual shape), the
\* session is left as it was, and a scrape that finds the session unset
\* enters init_selenium again.
C17_InitFailure ==
    [][\A p \in Pipelines :
          /\ InitFailedStep(p) =>
                /\ images'[p] = <<>>
                /\ pc'[p] = "done"
                /\ ret'[p] = Some(Returned(None, Some("No images found or chapter locked")))
                /\ driver' = driver
          /\ (pc[p] = "selenium" /\ pc'[p] # "selenium" /\ driver = None) =>
                pc'[p] = "sel_init"]_vars
C17_Witness ==
    /\ Fails(1, "No images found or chapter locked")
    /\ calls[1].init_selenium = 1
    /\ driver = None
    /\ pc[2] = "sel_init"

\* C18: the browser session is a single instance: over any interleaving of
\* browser scrapes a browser is created at most once, and init_selenium is
\* entered only while the session is unset.
C18_SingleInstance ==
    /\ browser.instances <= 1
    /\ \A p \in Pipelines : pc[p] = "sel_init" => driver = None

\* What holds of the session: scrapes that start after a browser was created
\* reuse it
C18_ReuseAfterCreation ==
    [][\A p \in Pipelines :
          (pc[p] = "selenium" /\ pc'[p] # "selenium" /\ driver # None) =>
              (pc'[p] = "sel_get" /\ driver' = driver)]_vars

\* C19: within one fetch batch the number of image requests in flight at
\* the same time never exceeds 8, however many URLs the scrape returned.
C19_AtMostEightInFlight ==
    \A p \in Pipelines : Cardinality(Running(p)) <= 8
C19_Witness ==
    /\ Len(images[1]) > 8
    /\ Cardinality(Running(1)) = 8
    /\ Queued(1) # {}

\* The pipeline took the step
Stepped(p) == pc'[p] # pc[p] \/ results'[p] # results[p] \/ calls'[p] # calls[p]
StaticSite(site) == InSite("Naver", site) \/ InSite("LINE", site)
BrowserCalls(p) == calls[p].scrape_with_selenium + calls[p].init_selenium + calls[p].browser_ops

\* C20: the strategy is a fixed function of the site: a Webtoons.com run
\* scrapes with the browser and never with the static scraper, a Naver or
\* LINE run scrapes with the static scraper and never with the browser; no
\* step of a Naver or LINE run initializes, navigates or changes the shared
\* browser session.
C20_StrategyBySite ==
    /\ [](\A p \in Pipelines :
             pc[p] # "idle" =>
                /\ InSite("Webtoons.com", req[p].site) =>
                      /\ calls[p].scrape_with_requests = 0
                      /\ pc[p] # "requests"
                      /\ images[p] # <<>> => calls[p].scrape_with_selenium = 1
                /\ StaticSite(req[p].site) =>
                      /\ BrowserCalls(p) = 0
                      /\ pc[p] \notin {"selenium", "sel_init", "sel_get", "sel_wait",
                                       "sel_scroll", "sel_scrolling", "sel_harvest"}
                      /\ images[p] # <<>> => calls[p].scrape_with_requests = 1)
    /\ [][\A p \in Pipelines :
             (Stepped(p) /\ StaticSite(req'[p].site)) =>
                 (driver' = driver /\ browser' = browser /\ driver_lock' = driver_lock)]_vars
C20_Witness ==
    /\ InSite("LINE", req[1].site)
    /\ calls[1].scrape_with_requests = 1
    /\ Succeeds(1)
    /\ driver = None /\ browser.instances = 0

\* The host of the chapter pages of a recognized site
HostOf(site) ==
    CASE site = "Naver Webtoon" -> "comic.naver.com"
      [] site = "Webtoons.com (Global)" -> "www.webtoons.com"
      [] site = "LINE Manga" -> "manga.line.me"
      [] OTHER -> ""

\* C21: get_chapter_url returns a chapter URL exactly when the site is
\* Naver, Webtoons.com or LINE and the base URL holds that site's token; the
\* URL then carries the token and the chapter number unchanged.  For every
\* other pair, AC.QQ included, it returns None.  The call changes no state
\* of the MangaDownloader.
C21_Locator ==
    /\ [](\A p \in Pipelines :
             pc[p] # "idle" =>
                /\ chapter_url[p] = get_chapter_url(req[p].site, req[p].base_url, req[p].chapter_num)
                /\ chapter_url[p] = None <=> NotFoundRequest(p)
                /\ chapter_url[p] # None =>
                      chapter_url[p][1] = [host |-> HostOf(req[p].site),
                                           id |-> req[p].base_url[TokenOf(req[p].site)],
                                           ep |-> req[p].chapter_num])
    /\ [][\A p \in Pipelines :
             (pc[p] = "idle" /\ pc'[p] # "idle") =>
                (/\ calls'[p].get_chapter_url = 1
                 /\ driver' = driver /\ driver_lock' = driver_lock /\ browser' = browser)]_vars
C21_Witness ==
    /\ req[1].site = "LINE Manga"
    /\ req[1].base_url = LineBase
    /\ req[1].chapter_num = 2
    /\ chapter_url[1] = Some([host |-> "manga.line.me", id |-> "Z0000123", ep |-> 2])

\* The pages of a stitch result that hold image img
PagesWith(pages, img) ==
    {k \in DOMAIN pages : \E j \in DOMAIN pages[k].members : pages[k].members[j] = img}

\* C22: an image taller than max_height is never split and is alone on its
\* page, wherever it stands in the input; the stitch succeeds and the page is
\* as high as the image.
C22_OversizedAlone ==
    (st_pc = "done" /\ AllDecodable(st_images)) =>
        \A i \in DOMAIN st_images :
            st_images[i].height > st_max_height =>
                /\ st_pages # <<>>
                /\ Cardinality(PagesWith(st_pages, st_images[i])) = 1
                /\ \A k \in PagesWith(st_pages, st_images[i]) :
                      /\ st_pages[k].members = <<st_images[i]>>
                      /\ st_pages[k].height = st_images[i].height
C22_Witness ==
    /\ st_pc = "done"
    /\ Len(st_images) = 3 /\ AllDecodable(st_images)
    /\ st_images[1].height = 5000
    /\ st_images[2].height > st_max_height
    /\ st_images[3].height = 3000
    /\ Len(st_pages) = 3
    /\ st_pages[2].height = 15000

\* C23: every chapter number handed to download_chapter by /download, by
\* /batch and by the daily run is a positive integer.
C23_PositiveChapter ==
    \A k \in DOMAIN c_log : c_log[k].op = "download_chapter" => c_log[k].chapter >= 1

\* Every document a host may answer with, in any of the specifications
EveryDoc == AllDocs \cup ConcDocs \cup {BatchDoc}

\* The run of p is what its own arguments and the answers to its own
\* requests make it
OwnResponsesOnly(p) ==
    /\ images[p] # <<>> =>
          /\ chapter_url[p] # None
          /\ \E doc \in DocsAt(chapter_url[p][1], EveryDoc) : images[p] = parse_requests(doc, req[p].site)
    /\ \A i \in DOMAIN results[p] :
          results[p][i].st = "done" =>
              results[p][i].r = download_image(images[p][i], results[p][i].response)
    /\ pc[p] \in {"stitching", "done"} /\ results[p] # <<>> => image_data[p] = NotNone(results[p])
    /\ pc[p] = "done" => ret[p] = Some(ObserverFreeResult(p))

\* C24: pipelines of the static strategy do not interfere through shared
\* state: run alongside others, such a pipeline ends with the result that
\* its own arguments and the responses to its own requests give it alone,
\* and no step of another pipeline changes anything of it.
C24_StaticIsolated ==
    /\ [](\A p \in Pipelines :
             (pc[p] # "idle" /\ StaticSite(req[p].site) /\ req[p].progress_callback = "none")
                 => OwnResponsesOnly(p))
    /\ [][\A p, q \in Pipelines :
             (p # q /\ Stepped(q) /\ StaticSite(req[p].site)) =>
                 (/\ pc'[p] = pc[p] /\ chapter_url'[p] = chapter_url[p]
                  /\ images'[p] = images[p] /\ results'[p] = results[p]
                  /\ image_data'[p] = image_data[p] /\ ret'[p] = ret[p])]_vars
C24_Witness ==
    /\ StaticSite(req[1].site) /\ Succeeds(1)
    /\ InSite("Webtoons.com", req[2].site) /\ Succeeds(2)
    /\ browser.url # None

\* A /batch command with a valid range start_chapter..end_chapter
ValidBatch ==
    /\ c_req.kind = "batch"
    /\ c_req.start_chapter >= 1 /\ c_req.end_chapter >= c_req.start_chapter
ChaptersInRange == c_req.end_chapter - c_req.start_chapter + 1
RejectedAtOnce(reply) ==
    c_pc = "done" /\ c_req.reply = reply /\ c_log = <<>> /\ c_folder = None

\* C25: an accepted /batch command downloads at most 10 chapters: a range
\* start_chapter..end_chapter of more than 10 chapters is rejected with
\* "Max 10 chapters per batch" before any folder is created and before any
\* download_chapter call.
C25_AtMostTenChapters ==
    ValidBatch =>
        /\ Len(c_log) <= 10
        /\ ChaptersInRange > 10 => RejectedAtOnce("Max 10 chapters per batch")

\* What the check of line 258 gives: at most 11 chapters, and a range of more
\* than 11 chapters is rejected at once
C25_AtMostElevenChapters ==
    ValidBatch =>
        /\ Len(c_log) <= 11
        /\ ChaptersInRange > 11 => RejectedAtOnce("Max 10 chapters per batch")

\* The items of a run: the chapters start_chapter..end_chapter of /batch,
\* the tasks 1..Len(tasks) of the daily run
InLoop == c_pc \in {"b_loop", "b_download", "d_loop", "d_download"}
RunOver ==
    c_pc = "done" /\ c_req.reply \in {"Batch Upload Complete", "No chapters were successfully uploaded",
                                      "Daily Download Summary"}
FirstItem == IF c_req.kind = "batch" THEN c_req.start_chapter ELSE 1
LastItem == IF c_req.kind = "batch" THEN c_req.end_chapter ELSE Len(c_tasks)

\* C26: in a /batch run and in a daily run a failed chapter does not stop
\* the run: the items are taken up in ascending order, one at a time, each
\* exactly once whatever became of the earlier ones, and the run ends only
\* after the last one.
C26_RunContinues ==
    (c_req.kind \in {"batch", "daily"} /\ (InLoop \/ RunOver)) =>
        /\ \A k \in DOMAIN c_log : c_log[k].item = FirstItem + k - 1
        /\ c_failed <= Len(c_log)
        /\ c_pc \in {"b_loop", "d_loop"} => Len(c_log) = c_i - FirstItem
        /\ c_pc \in {"b_download", "d_download"} =>
              (Len(c_log) = c_i - FirstItem + 1 /\ c_log[Len(c_log)].op = "download_chapter")
        /\ RunOver => Len(c_log) = LastItem - FirstItem + 1
C26_Witness ==
    /\ RunOver
    /\ c_req.kind = "batch"
    /\ Len(c_log) = 3
    /\ c_failed = 2

HeightsOf(imgs) == [i \in DOMAIN imgs |-> imgs[i].height]

\* C27: batching is greedy and maximal: of two consecutive pages, the
\* height of the earlier plus the height of the first image of the later is
\* strictly greater than max_height, so an image that fills a batch up to
\* max_height exactly joins it.  Heights 5000, 5000, 3000 with max_height
\* 12000 give the pages [img1, img2] of height 10000 and [img3] of height
\* 3000.
C27_GreedyMaximal ==
    (st_pc = "done" /\ AllDecodable(st_images)) =>
        /\ \A k \in 1..(Len(st_pages) - 1) :
              st_pages[k].height + st_pages[k + 1].members[1].height > st_max_height
        /\ (HeightsOf(st_images) = <<5000, 5000, 3000>> /\ st_max_height = 12000) =>
              /\ Len(st_pages) = 2
              /\ st_pages[1].members = SubSeq(st_images, 1, 2) /\ st_pages[1].height = 10000
              /\ st_pages[2].members = SubSeq(st_images, 3, 3) /\ st_pages[2].height = 3000
C27_Witness ==
    /\ st_pc = "done" /\ AllDecodable(st_images)
    /\ HeightsOf(st_images) = <<5000, 5000, 3000>>
    /\ st_max_height = 10000
    /\ Len(st_pages) = 2
    /\ st_pages[1].height = st_max_height

\* C28: the list a browser scrape returns for chapter URL u is harvested
\* from the page loaded for u, also when another pipeline scrapes another
\* chapter on the shared session at the same time: while a scrape waits,
\* scrolls or harvests, the session shows the page of its own URL.
C28_HarvestOwnPage ==
    /\ [](\A p \in Pipelines : InFlight(p) => browser.url = chapter_url[p])
    /\ [][\A p \in Pipelines :
             (pc[p] = "sel_harvest" /\ pc'[p] # "sel_harvest") =>
                 (/\ browser.url = chapter_url[p]
                  /\ images'[p] = harvest_selenium(browser.doc, req[p].site))]_vars

\* What holds without the claim's condition on the page: the list is
\* harvested from whatever page the session shows at that moment
C28_HarvestCurrentPage ==
    [][\A p \in Pipelines :
          (pc[p] = "sel_harvest" /\ pc'[p] # "sel_harvest") =>
              images'[p] = harvest_selenium(browser.doc, req[p].site)]_vars

\* The cell of column idx (0 = A) as the sheet holds it, "" when the row
\* ends before it
RawCell(row, idx) == IF Len(row) > idx THEN row[idx + 1] ELSE ""
NotAnInteger(cell) == int(strip(cell)) = None
DayMismatch(row, today_name) == lower(strip(RawCell(row, 10))) # lower(today_name)
RowsOfRun == c_req.rows
TasksOfRow(r) == {k \in DOMAIN c_tasks : c_tasks[k].row_number = r + 1}

\* The chapter arithmetic of a task and the name of its folder
TaskArithmetic ==
    /\ \A k \in DOMAIN c_tasks :
          /\ c_tasks[k].chapter = c_tasks[k].last_chapter + 1 + c_tasks[k].skip_chapters
          /\ \A j \in DOMAIN c_log :
                c_log[j].item = k => c_log[j].chapter = c_tasks[k].chapter
    /\ (c_pc = "d_loop" /\ c_folder # None) =>
          \E k \in 1..(c_i - 1) : c_folder[1].chapter = c_tasks[k].last_chapter + 1

\* C29 (as claimed): the chapter downloaded for a task is last_chapter + 1
\* + skip_chapters and its folder is named after last_chapter + 1; a row
\* whose last-chapter or skip cell is not an integer, a row of fewer than 11
\* columns, a row without URL and a row of another day yield no task.
C29_TasksOfRows ==
    c_req.kind = "daily" =>
        /\ TaskArithmetic
        /\ \A r \in DOMAIN RowsOfRun :
              LET row == RowsOfRun[r]
              IN  (\/ Len(row) < 11
                   \/ strip(RawCell(row, 1)) = ""
                   \/ DayMismatch(row, c_req.today_name)
                   \/ NotAnInteger(RawCell(row, 3))
                   \/ NotAnInteger(RawCell(row, 12))) => TasksOfRow(r) = {}

\* A row that yields no task: too short, of another day, without URL, or
\* with text in the last-chapter or skip cell that int() rejects.  An empty
\* or missing cell is not such text: it counts as 0 (a blank skip cell too).
YieldsNoTask(row, today_name) ==
    \/ Len(row) < 11
    \/ strip(RawCell(row, 1)) = ""
    \/ DayMismatch(row, today_name)
    \/ RawCell(row, 3) # "" /\ NotAnInteger(RawCell(row, 3))
    \/ strip(RawCell(row, 12)) # "" /\ NotAnInteger(RawCell(row, 12))

\* C29 (amended): the same arithmetic; a row yields no task exactly when it
\* has fewer than 11 columns, no URL, another day, or a last-chapter or skip
\* cell with text that is not an integer; an empty or missing last-chapter
\* cell counts as last chapter 0, an empty, blank or missing skip cell as
\* skip 0, and every other row yields one task.
C29_TasksOfRowsWithDefaults ==
    c_req.kind = "daily" =>
        /\ TaskArithmetic
        /\ \A r \in DOMAIN RowsOfRun :
              LET row == RowsOfRun[r]
              IN  IF YieldsNoTask(row, c_req.today_name)
                  THEN TasksOfRow(r) = {}
                  ELSE /\ Cardinality(TasksOfRow(r)) = 1
                       /\ \A k \in TasksOfRow(r) :
                             /\ c_tasks[k].last_chapter =
                                   (IF RawCell(row, 3) = "" THEN 0 ELSE int(strip(RawCell(row, 3)))[1])
                             /\ c_tasks[k].skip_chapters =
                                   (IF strip(RawCell(row, 12)) = "" THEN 0
                                    ELSE int(strip(RawCell(row, 12)))[1])
C29_Witness ==
    /\ c_req.kind = "daily" /\ c_pc = "d_loop" /\ c_i = 2
    /\ Len(c_tasks) = 2
    /\ c_tasks[1].last_chapter = 1 /\ c_tasks[1].skip_chapters = 2
    /\ c_log = <<Called(1, 4)>>
    /\ c_folder = Some([kind |-> "chapter", chapter |-> 2])
    /\ RawCell(RowsOfRun[2], 3) = "" /\ c_tasks[2].chapter = 1

\* C30: the loop runs the daily tasks only at or after a scheduled instant
\* (15:05) and at most once per scheduled date: each run serves a scheduled
\* instant strictly later than the one served before, so no date has its
\* tasks processed twice by the loop.
C30_OncePerDate ==
    /\ \A k \in DOMAIN sl_runs :
          /\ sl_runs[k].target % DayMinutes = 15 * 60 + 5
          /\ sl_runs[k].at >= sl_runs[k].target
    /\ \A k, l \in DOMAIN sl_runs :
          k < l => /\ sl_runs[k].target < sl_runs[l].target
                   /\ Date(sl_runs[k].target) # Date(sl_runs[l].target)
                   /\ Date(sl_runs[k].at) # Date(sl_runs[l].at)
    /\ sl_pc = "sleeping" /\ sl_runs # <<>> => sl_target > sl_runs[Len(sl_runs)].target
C30_Witness ==
    /\ Len(sl_runs) = 2
    /\ Date(sl_runs[1].at) = 0
    /\ Date(sl_runs[2].at) = 1
    /\ sl_pc = "sleeping"

\* The tasks of a daily run for which download_and_upload_chapter was run:
\* all that were taken up, but for those given up for want of a folder
RanFor == {k \in DOMAIN c_log : c_log[k].op # "no_folder" /\ (c_pc = "d_download" => k < Len(c_log))}
DailySummary == c_pc = "done" /\ c_req.kind = "daily" /\ c_req.reply = "Daily Download Summary"

\* C31: in a daily run a task without a destination folder (none in the
\* Config sheet, none by default) starts no chapter pipeline and has no
\* result; the summary's successful + failed is the number of tasks for
\* which download_and_upload_chapter was run; a successful result has at
\* least one uploaded page.
C31_DailyResults ==
    c_req.kind = "daily" =>
        /\ \A k \in DOMAIN c_log : c_log[k].op = "no_folder" =>
              /\ \A j \in DOMAIN c_log : c_log[j].item = c_log[k].item => c_log[j].op # "download_chapter"
              /\ \A j \in DOMAIN c_results : c_results[j].item # c_log[k].item
        /\ {c_results[j].item : j \in DOMAIN c_results} = {c_log[k].item : k \in RanFor}
        /\ \A j \in DOMAIN c_results : c_results[j].success => c_results[j].uploaded_count >= 1
        /\ DailySummary =>
              /\ c_req.summary[1].successful + c_req.summary[1].failed = Cardinality(RanFor)
              /\ c_req.summary[1].successful
                    <= Cardinality({j \in DOMAIN c_results : c_results[j].uploaded_count >= 1})
C31_Witness ==
    /\ DailySummary
    /\ \E k \in DOMAIN c_log : c_log[k].op = "no_folder"
    /\ c_req.summary[1] = [successful |-> 1, failed |-> 0, total |-> 1]

\* C32: /download answers "Upload Complete" for a chapter only if at least
\* one stitched page of the chapter was uploaded; when every upload fails it
\* reports a failure, as /batch and the daily run do.
C32_UploadCompleteOnlyIfUploaded ==
    (c_pc = "done" /\ c_req.kind = "download" /\ c_req.reply = "Upload Complete") =>
        /\ c_uploaded # None
        /\ c_uploaded[1].chapter = c_req.chapter
        /\ c_uploaded[1].uploaded_count >= 1

\* The notifications of a whole run, and how many of them are due: one per
\* stage entered (scraping, fetching, stitching)
AllNotifications(p) ==
    << [msg |-> "Fetching chapter", n |-> req[p].chapter_num],
       [msg |-> "Downloading images", n |-> Len(images[p])],
       [msg |-> "Stitching images", n |-> Len(image_data[p])] >>
StagesEntered(p) ==
    IF chapter_url[p] = None THEN 0
    ELSE IF images[p] = <<>> THEN 1
    ELSE IF image_data[p] = <<>> THEN 2
    ELSE 3

\* C33: with an observer, the notifications of a run are, in this order and
\* each at most once, fetching-chapter, downloading-N-images and
\* stitching-M-images, N the number of scraped URLs and M <= N the number
\* of fetched images; a stage is announced only if every earlier stage
\* succeeded, so a failed run has announced exactly the stages it entered.
C33_NotificationsInOrder ==
    \A p \in Pipelines :
        (pc[p] # "idle" /\ req[p].progress_callback # "none") =>
            /\ notified[p] = SubSeq(AllNotifications(p), 1, StagesEntered(p))
            /\ Len(image_data[p]) <= Len(images[p])
            /\ Fails(p, "Invalid URL format") => notified[p] = <<>>
            /\ Fails(p, "No images found or chapter locked") => Len(notified[p]) = 1
            /\ Fails(p, "Failed to download images") => Len(notified[p]) = 2
            /\ (Fails(p, "Failed to stitch images") \/ Succeeds(p)) => Len(notified[p]) = 3
C33_Witness ==
    /\ Succeeds(1)
    /\ req[1].progress_callback = "ok"
    /\ Len(notified[1]) = 3
    /\ notified[1][3].n < notified[1][2].n

\* C34: within a stitched page the images are pasted top to bottom without
\* gap or overlap: image k starts at the sum of the heights of the images
\* before it, the last one ends at the canvas height; the horizontal offset
\* of an image is floor((canvas width - image width) / 2), it is >= 0, the
\* image lies inside the canvas, and its left and right padding differ by at
\* most one pixel.
C34_PastedWithoutGap ==
    st_pc = "done" =>
        \A j \in DOMAIN st_pages :
            LET page == st_pages[j]
                n == Len(page.members)
            IN  /\ Len(page.pastes) = n
                /\ n >= 1
                /\ page.pastes[1].y_offset = 0
                /\ \A k \in 1..(n - 1) :
                      page.pastes[k + 1].y_offset = page.pastes[k].y_offset + page.members[k].height
                /\ \A k \in 1..n :
                      page.pastes[k].y_offset = SumHeights(SubSeq(page.members, 1, k - 1))
                /\ page.pastes[n].y_offset + page.members[n].height = page.height
                /\ \A k \in 1..n :
                      LET left == page.pastes[k].x_offset
                          right == page.width - left - page.members[k].width
                      IN  /\ left >= 0 /\ right >= 0
                          /\ 2 * left <= page.width - page.members[k].width
                          /\ page.width - page.members[k].width <= 2 * left + 1
                          /\ right - left \in {0, 1}
C34_Witness ==
    /\ st_pc = "done"
    /\ \E j \in DOMAIN st_pages :
          /\ Len(st_pages[j].members) = 2
          /\ st_pages[j].pastes[2].y_offset = 3000
          /\ st_pages[j].pastes[2].x_offset = 99
          /\ st_pages[j].width = 800 /\ st_pages[j].members[2].width = 601

\* C35: the browser strategy harvests the image elements only after the
\* scroll sequence has ended with the scroll to the bottom of the document:
\* the scroll loop is finite for every document height (its positions are
\* 1, 801, ... below the height, then the loop is left), the last scroll
\* issued is the one to the bottom, and no image element is enumerated
\* before it.
C35_ScrollBeforeHarvest ==
    /\ [](\A p \in Pipelines :
             scroll[p].total_height # None =>
                LET total_height == scroll[p].total_height[1]
                    issued == scroll[p].issued
                IN  /\ \A k \in DOMAIN issued :
                          \/ issued[k] = ToY(1 + ScrollStep * (k - 1)) /\ issued[k].y < total_height
                          \/ issued[k] = ToScrollHeight /\ k = Len(issued)
                               /\ 1 + ScrollStep * (k - 1) >= total_height
                    /\ Len(issued) <= (total_height \div ScrollStep) + 2
                    /\ (pc[p] = "sel_harvest" \/ (use_selenium(req[p].site) /\ images[p] # <<>>)) =>
                          (issued # <<>> /\ issued[Len(issued)] = ToScrollHeight))
    /\ [](\A p \in Pipelines :
             (use_selenium(req[p].site) /\ images[p] # <<>>) => scroll[p].total_height # None)
    /\ [][\A p \in Pipelines :
             (pc[p] = "sel_harvest" /\ pc'[p] # "sel_harvest") =>
                 (scroll[p].issued # <<>> /\ scroll[p].issued[Len(scroll[p].issued)] = ToScrollHeight)]_vars
    /\ \A p \in {1} : (pc[p] \in {"sel_scroll", "sel_scrolling"}) ~> (pc[p] = "sel_harvest")
C35_Witness ==
    /\ Succeeds(1)
    /\ use_selenium(req[1].site)
    /\ scroll[1].total_height = Some(ScrollStep + 2)
    /\ scroll[1].issued = <<ToY(1), ToY(ScrollStep + 1), ToScrollHeight>>

\* The source of an image element as the browser strategy reads it: the src
\* attribute, the data-src attribute when src is absent or empty
SourceOf(img) == IF img.src # "" THEN img.src ELSE img.data_src
Passes(src, site) ==
    /\ src # ""
    /\ SrcLen[src] > 50
    /\ InSite("Webtoons.com", site) => ("cdn.webtoon" \in SrcText[src] /\ "stub" \notin SrcText[src])
FirstAt(doc, src) ==
    CHOOSE e \in DOMAIN doc.imgs :
        /\ SourceOf(doc.imgs[e]) = src
        /\ \A d \in 1..(e - 1) : SourceOf(doc.imgs[d]) # src
HarvestOf(list, doc, site) ==
    /\ \A k \in DOMAIN list : Passes(list[k], site)
    /\ \A k \in DOMAIN list : \E e \in DOMAIN doc.imgs : SourceOf(doc.imgs[e]) = list[k]
    /\ \A e \in DOMAIN doc.imgs :
          Passes(SourceOf(doc.imgs[e]), site) => \E k \in DOMAIN list : list[k] = SourceOf(doc.imgs[e])
    /\ \A j, k \in DOMAIN list : j < k => FirstAt(doc, list[j]) < FirstAt(doc, list[k])

\* C36: every URL the browser strategy returns is longer than 50
\* characters and, for a Webtoons.com request, contains "cdn.webtoon" and
\* not "stub"; every image element whose source passes these tests is
\* included, in document order.
C36_BrowserFilter ==
    /\ \A p \in Pipelines :
          (use_selenium(req[p].site) /\ pc[p] \in {"fetching", "stitching", "done"}
              /\ scroll[p].total_height # None) =>
             HarvestOf(images[p], browser.doc, req[p].site)
    /\ \A doc \in AllDocs : \A site \in {x \in Sites : use_selenium(x)} :
          HarvestOf(harvest_selenium(doc, site), doc, site)
C36_Witness ==
    /\ Succeeds(1)
    /\ InSite("Webtoons.com", req[1].site)
    /\ images[1] = <<"w1", "w2", "w3">>
    /\ Len(browser.doc.imgs) = 7

\* The data rows of the sheet a get_skip_value_from_sheet call read, and
\* those among them whose URL is the requested one
SkipRows == IF c_req.progress_data.values = <<>> THEN <<>> ELSE Tail(c_req.progress_data.values)
Matching == {k \in DOMAIN SkipRows : strip(RawCell(SkipRows[k], 1)) = c_req.url}
FirstMatching == CHOOSE k \in Matching : \A j \in Matching : k <= j
Unreadable == ~c_req.sheet_scheduler \/ c_req.progress_data.kind # "values"

\* C37: get_skip_value_from_sheet always returns an integer: 0 without a
\* scheduler, when the sheet cannot be read or has no data row, when no
\* row has the requested URL, when the skip cell of the matching row is
\* absent, empty or not an integer, and on any exception; otherwise the
\* integer in the skip cell of the first row, in sheet order, with that URL.
C37_SkipValue ==
    (c_req.kind = "skip" /\ c_pc = "done") =>
        /\ c_req.skip_value # None
        /\ c_req.skip_value[1] \in Int
        /\ IF Unreadable \/ Matching = {}
           THEN c_req.skip_value[1] = 0
           ELSE LET cell == RawCell(SkipRows[FirstMatching], 12)
                IN  IF cell = "" \/ int(strip(cell)) = None
                    THEN c_req.skip_value[1] = 0
                    ELSE c_req.skip_value = int(strip(cell))
C37_Witness ==
    /\ c_req.kind = "skip" /\ c_pc = "done"
    /\ Cardinality(Matching) = 2
    /\ c_req.skip_value = Some(2)
    /\ RawCell(SkipRows[2], 12) = "-3"

\* C38: fetching images never changes the downloader's shared default
\* headers: after any number of download_image calls, one after the other
\* or at the same time, self.headers holds the user agent only; each call
\* adds the Referer, its own chapter page, to a copy, so that no request of
\* a pipeline carries the Referer of another pipeline's chapter.
C38_SharedHeadersUntouched ==
    /\ DOMAIN headers = {"User-Agent"}
    /\ headers = DefaultHeaders
    /\ \A p \in Pipelines : \A r \in sent[p] :
          /\ r.to = "page" => DOMAIN r.headers = {"User-Agent"}
          /\ r.to = "image" =>
                /\ DOMAIN r.headers = {"User-Agent", "Referer"}
                /\ r.headers["Referer"] = chapter_url[p][1]
          /\ r.headers["User-Agent"] = headers["User-Agent"]
          /\ \A q \in Pipelines \ {p} :
                ("Referer" \in DOMAIN r.headers /\ chapter_url[q] # None /\ chapter_url[q] # chapter_url[p])
                    => r.headers["Referer"] # chapter_url[q][1]
C38_Witness ==
    /\ chapter_url[1] # None /\ chapter_url[2] # None
    /\ chapter_url[1] # chapter_url[2]
    /\ calls[1].download_image >= 1 /\ calls[2].download_image >= 1
    /\ pc[1] = "fetching" /\ pc[2] = "fetching"
    /\ \A p \in Pipelines : {r.to : r \in sent[p]} = {"page", "image"}

====
